---------------------------- MODULE Spec2Model ----------------------------
(***************************************************************************)
(* The autonomous decision-and-execution control loop: PortfolioAgent      *)
(* (lifecycle, decision pipeline, autonomy policy, alert log) and          *)
(* AgentMonitor (registry, sweep, overrides, emergency shutdown).          *)
(*                                                                         *)
(* Confidence values and risk reductions are kept in hundredths            *)
(* (0.7 is 70): every comparison the code makes on them is against a       *)
(* constant with at most two decimals.                                     *)
(***************************************************************************)
EXTENDS Integers, Sequences, FiniteSets, TLC

(***************************************************************************)
(* Bounds of the model.                                                    *)
(***************************************************************************)
\* The system specification (Spec): the monitor and two agents.
MaxDecisions == 1
MaxAlerts == 3
MaxTimers == 2
MaxMonitorTimers == 1
MaxInflight == 1
\* The agent specification (SpecAgent): one agent, every config, wide inputs.
AgentMaxDecisions == 1
AgentMaxAlerts == 3
AgentMaxTimers == 2
AgentMaxInflight == 1
AgentMaxUpdates == 1
MaxItems == 1
\* The history specification (SpecHistory): one agent, overlapping calls.
HistoryMaxDecisions == 3
HistoryMaxAlerts == 3
HistoryMaxTimers == 1
HistoryMaxInflight == 2
\* The monitor specification (SpecMonitor): one agent under the monitor's sweep.
MonitorMaxDecisions == 3
MonitorMaxAlerts == 4
MonitorMaxSweepTimers == 2
\* The acknowledgment specification (SpecAcknowledge): alerts raised by cycles.
AckMaxAlerts == 6
AckMaxDecisions == 2
AckMaxNow == 2
\* The alert log specification (SpecAlertLog): the log up to its cap.
LogMaxNow == 1
\* The cycle specification (SpecCycle): one agent, the source's lists.
CycleMaxDecisions == 2
CycleMaxAlerts == 4
CycleMaxRecommendations == 2
CycleItems == 2
\* tradingLimits.maxTradesPerHour of the agent of the cycle specification.
MaxTradesPerHour == 3
\* The market specification (SpecMarket): the clock and the executions.
MarketMaxNow == 120000
MarketMaxExecutions == 2
\* The executor specification (SpecExecutor): the orders of one batch.
MaxBatch == 2

\* The agents that exist and the monitor's configured emergency contacts.
AgentIds == {"a1", "a2"}
emergencyContacts == <<"ops", "risk">>

(***************************************************************************)
(* Program constants (hundredths).                                         *)
(***************************************************************************)
MinConfidence == 70
CriticalConfidence == 80
HighConfidence == 85
DefaultConfidence == 90
RiskReductionBonusAbove == 20
ConfidenceBonus == 10
ConfidenceCap == 100
\* TradeExecutor (prices in hundred-thousandths, rates in millionths).
PriceScale == 100000
VolumeShareScale == 1000
ImpactPerRatio == 1000
ImpactCap == 50000
BaseSlippage == 1000
MaxSlippageTolerance == 100000
LoanMinimumNotional == 100000
\* MarketDataProvider: the life of a cached snapshot, in milliseconds.
CacheDuration == 60000
\* Weights are kept in thousandths.
WeightScale == 1000
AlertCap == 100
AlertKeep == 50
CriticalAlertPause == 3
FailureWindow == 5

Statuses == {"ACTIVE", "PAUSED", "STOPPED", "ERROR"}
AutonomyLevels == {"FULL_AUTO", "SEMI_AUTO", "ADVISORY_ONLY"}
Priorities == {"LOW", "MEDIUM", "HIGH", "CRITICAL"}
RecommendationTypes ==
  {"REBALANCE", "SELL", "BUY", "HEDGE", "REDUCE_CONCENTRATION",
   "IMPROVE_DIVERSIFICATION", "CREDIT_RISK_MITIGATION",
   "DURATION_ADJUSTMENT", "YIELD_ENHANCEMENT"}
DecisionTypes ==
  {"AUTO_REBALANCE", "RISK_MITIGATION", "YIELD_OPTIMIZATION",
   "EMERGENCY_HEDGE", "LIQUIDITY_MANAGEMENT", "OPPORTUNISTIC_TRADE"}

VARIABLES
  agent,      \* agent[a]: the PortfolioAgent object a (config, state, history, timer)
  inflight,   \* inflight[a]: the suspended async calls of agent a (cycles, executeDecision)
  monitor,    \* the AgentMonitor object
  effects,    \* what emergencyShutdown did to the outside: stop() calls, notifications
  nextSerial, \* the number of Decision objects created so far, plus one
  updates,    \* the number of updateConfig calls so far
  gate,       \* the autonomy policy applied to one drawn input
  now,        \* Date.now(), in milliseconds since construction
  executor,   \* the TradeExecutor and the executeBatchTrades call in flight
  scoring,    \* calculateConfidence applied to one drawn recommendation
  market      \* the MarketDataProvider's cache and the agent's portfolio

vars == <<agent, inflight, monitor, effects, nextSerial, updates, gate, now, executor, scoring, market>>

\* What the agents and the monitor never write.
apart == <<executor, scoring, market>>

(***************************************************************************)
(* PortfolioAgent: pure helpers.                                           *)
(***************************************************************************)
Min(x, y) == IF x < y THEN x ELSE y

mapRecommendationToDecisionType(type) ==
  CASE type = "REBALANCE" -> "AUTO_REBALANCE"
    [] type = "CREDIT_RISK_MITIGATION" -> "RISK_MITIGATION"
    [] type = "YIELD_ENHANCEMENT" -> "YIELD_OPTIMIZATION"
    [] type = "HEDGE" -> "EMERGENCY_HEDGE"
    [] OTHER -> "OPPORTUNISTIC_TRADE"

\* riskReduction = 0 stands for an absent (or zero) impact.riskReduction.
calculateConfidenceBonusAtThreshold(priority, riskReduction) ==
  LET base == CASE priority = "CRITICAL" -> 90
                [] priority = "HIGH" -> 80
                [] priority = "MEDIUM" -> 70
                [] OTHER -> 60
      bonus == IF riskReduction # 0 /\ riskReduction >= RiskReductionBonusAbove
               THEN ConfidenceBonus ELSE 0
  IN Min(base + bonus, ConfidenceCap)

calculateConfidence(priority, riskReduction) ==
  LET base == CASE priority = "CRITICAL" -> 90
                [] priority = "HIGH" -> 80
                [] priority = "MEDIUM" -> 70
                [] OTHER -> 60
      bonus == IF riskReduction # 0 /\ riskReduction > RiskReductionBonusAbove
               THEN ConfidenceBonus ELSE 0
  IN Min(base + bonus, ConfidenceCap)

shouldAutoExecuteAnyAutonomy(autonomyLevel, simulationMode, decisionType, priority, confidence) ==
  IF autonomyLevel = "ADVISORY_ONLY" THEN FALSE
  ELSE IF simulationMode THEN FALSE
  ELSE IF confidence < MinConfidence THEN FALSE
  ELSE IF decisionType = "EMERGENCY_HEDGE"
          \/ (priority = "CRITICAL" /\ confidence > CriticalConfidence)
       THEN TRUE
  ELSE IF priority = "HIGH" /\ confidence > HighConfidence
       THEN autonomyLevel = "FULL_AUTO"
  ELSE autonomyLevel = "FULL_AUTO" /\ priority # "LOW" /\ confidence > DefaultConfidence

shouldAutoExecuteNoConfidenceFloor(autonomyLevel, simulationMode, decisionType, priority, confidence) ==
  IF autonomyLevel = "ADVISORY_ONLY" THEN FALSE
  ELSE IF simulationMode THEN FALSE
  ELSE IF decisionType = "EMERGENCY_HEDGE"
          \/ (priority = "CRITICAL" /\ confidence > CriticalConfidence)
       THEN autonomyLevel = "FULL_AUTO"
  ELSE IF priority = "HIGH" /\ confidence > HighConfidence
       THEN autonomyLevel = "FULL_AUTO"
  ELSE autonomyLevel = "FULL_AUTO" /\ priority # "LOW" /\ confidence > DefaultConfidence

shouldAutoExecuteHedgeAlways(autonomyLevel, simulationMode, decisionType, priority, confidence) ==
  IF decisionType = "EMERGENCY_HEDGE" THEN TRUE
  ELSE IF autonomyLevel = "ADVISORY_ONLY" THEN FALSE
  ELSE IF simulationMode THEN FALSE
  ELSE IF confidence < MinConfidence THEN FALSE
  ELSE IF priority = "CRITICAL" /\ confidence > CriticalConfidence
       THEN autonomyLevel = "FULL_AUTO"
  ELSE IF priority = "HIGH" /\ confidence > HighConfidence
       THEN autonomyLevel = "FULL_AUTO"
  ELSE autonomyLevel = "FULL_AUTO" /\ priority # "LOW" /\ confidence > DefaultConfidence

shouldAutoExecuteHighAtThreshold(autonomyLevel, simulationMode, decisionType, priority, confidence) ==
  IF autonomyLevel = "ADVISORY_ONLY" THEN FALSE
  ELSE IF simulationMode THEN FALSE
  ELSE IF confidence < MinConfidence THEN FALSE
  ELSE IF decisionType = "EMERGENCY_HEDGE"
          \/ (priority = "CRITICAL" /\ confidence > CriticalConfidence)
       THEN autonomyLevel = "FULL_AUTO"
  ELSE IF priority = "HIGH" /\ confidence >= HighConfidence
       THEN autonomyLevel = "FULL_AUTO"
  ELSE autonomyLevel = "FULL_AUTO" /\ priority # "LOW" /\ confidence > DefaultConfidence

shouldAutoExecute(autonomyLevel, simulationMode, decisionType, priority, confidence) ==
  IF autonomyLevel = "ADVISORY_ONLY" THEN FALSE
  ELSE IF simulationMode THEN FALSE
  ELSE IF confidence < MinConfidence THEN FALSE
  ELSE IF decisionType = "EMERGENCY_HEDGE"
          \/ (priority = "CRITICAL" /\ confidence > CriticalConfidence)
       THEN autonomyLevel = "FULL_AUTO"
  ELSE IF priority = "HIGH" /\ confidence > HighConfidence
       THEN autonomyLevel = "FULL_AUTO"
  ELSE autonomyLevel = "FULL_AUTO" /\ priority # "LOW" /\ confidence > DefaultConfidence

(***************************************************************************)
(* PortfolioAgent: the object.  An agent record s holds config (enabled,   *)
(* autonomyLevel, simulationMode), state (status, alerts, totalDecisions), *)
(* decisionHistory and the timer: intervalId says whether the field holds  *)
(* a handle, liveTimers counts the interval timers that are still          *)
(* scheduled (start() overwrites the handle without clearing it).          *)
(***************************************************************************)
\* The id is `alert-${Date.now()}`: alerts raised in the same millisecond share it.
NewAlert(severity, type, message) ==
  [id |-> now, severity |-> severity, type |-> type, message |-> message,
   acknowledged |-> FALSE]

LastN(seq, n) ==
  IF Len(seq) <= n THEN seq ELSE SubSeq(seq, Len(seq) - n + 1, Len(seq))

addAlertKeepOldest(s, severity, type, message) ==
  LET pushed == Append(s.alerts, NewAlert(severity, type, message))
  IN [s EXCEPT !.alerts = IF Len(pushed) > AlertCap THEN SubSeq(pushed, 1, AlertKeep) ELSE pushed]

addAlert(s, severity, type, message) ==
  LET pushed == Append(s.alerts, NewAlert(severity, type, message))
  IN [s EXCEPT !.alerts = IF Len(pushed) > AlertCap THEN LastN(pushed, AlertKeep) ELSE pushed]

NewAgent(enabled, autonomyLevel, simulationMode) ==
  [enabled |-> enabled, autonomyLevel |-> autonomyLevel, simulationMode |-> simulationMode,
   status |-> "STOPPED", totalDecisions |-> 0, successRate |-> 0, maxDrawdown |-> 0,
   alerts |-> <<>>, decisionHistory |-> <<>>,
   intervalId |-> FALSE, liveTimers |-> 0]

startIgnoringEnabled(s) ==
  [addAlert([s EXCEPT !.status = "ACTIVE"], "LOW", "SYSTEM_ERROR", "started")
     EXCEPT !.intervalId = TRUE, !.liveTimers = @ + 1]

start(s) ==
  IF ~s.enabled
  THEN addAlert(s, "HIGH", "SYSTEM_ERROR", "disabled")
  ELSE [addAlert([s EXCEPT !.status = "ACTIVE"], "LOW", "SYSTEM_ERROR", "started")
          EXCEPT !.intervalId = TRUE, !.liveTimers = @ + 1]

stop(s) ==
  LET s1 == [s EXCEPT !.status = "STOPPED"]
      s2 == IF s1.intervalId
            THEN [s1 EXCEPT !.intervalId = FALSE, !.liveTimers = @ - 1]
            ELSE s1
  IN addAlert(s2, "LOW", "SYSTEM_ERROR", "stopped")

pause(s) ==
  addAlert([s EXCEPT !.status = "PAUSED"], "LOW", "SYSTEM_ERROR", "paused")

(***************************************************************************)
(* Decisions.  A recommendation rec is [type, priority, riskReduction,     *)
(* items]: items is the number of its action items that name an asset.     *)
(* A Decision carries a serial number standing for the object's identity.  *)
(***************************************************************************)
NoDetails == [present |-> FALSE, trades |-> 0, failed |-> 0, totalCost |-> 0, success |-> FALSE]

NoDecision ==
  [serial |-> 0, priority |-> "LOW", decisionType |-> "OPPORTUNISTIC_TRADE", confidence |-> 0,
   status |-> "PENDING", executionDetails |-> NoDetails]

\* executeDecision up to the policy: the Decision as built, PENDING.
BuildDecision(s, rec, serial) ==
  [serial |-> serial, priority |-> rec.priority,
   decisionType |-> mapRecommendationToDecisionType(rec.type),
   confidence |-> calculateConfidence(rec.priority, rec.riskReduction),
   status |-> "PENDING", executionDetails |-> NoDetails]

Approves(s, d) ==
  shouldAutoExecute(s.autonomyLevel, s.simulationMode, d.decisionType, d.priority, d.confidence)

\* One executeTrade result folded into the execution details: a FAILED trade has
\* price 0 and adds an error, any other adds its notional (one unit) to the cost.
AddTrade(details, result) ==
  [details EXCEPT !.trades = @ + 1,
                  !.failed = IF result = "FAILED" THEN @ + 1 ELSE @,
                  !.totalCost = IF result = "FAILED" THEN @ ELSE @ + 1]

FinalizeAlwaysCompleted(d) ==
  [d EXCEPT !.executionDetails = [@ EXCEPT !.present = TRUE, !.success = TRUE],
            !.status = "COMPLETED"]

FinalizeWithoutDetails(d) ==
  [d EXCEPT !.status = IF d.executionDetails.failed = 0 THEN "COMPLETED" ELSE "FAILED"]

\* executeRecommendation's return and the status executeDecision derives from it.
Finalize(d) ==
  LET det == [d.executionDetails EXCEPT !.present = TRUE, !.success = (d.executionDetails.failed = 0)]
  IN [d EXCEPT !.executionDetails = det,
               !.status = IF det.success THEN "COMPLETED" ELSE "FAILED"]

RecordWithSuccessRate(s, d) ==
  [s EXCEPT !.decisionHistory = Append(@, d), !.totalDecisions = @ + 1,
            !.successRate = IF d.status = "COMPLETED" THEN 100 ELSE @]

RecordUncounted(s, d) ==
  [s EXCEPT !.decisionHistory = Append(@, d)]

\* The tail of executeDecision: push, count.
Record(s, d) ==
  [s EXCEPT !.decisionHistory = Append(@, d), !.totalDecisions = @ + 1]

\* executeDecision when no trade has to be awaited: the Decision is recorded in
\* the same synchronous run (not approved, or approved with no asset item).
executeDecisionNow(s, rec, serial) ==
  LET d == BuildDecision(s, rec, serial)
  IN IF Approves(s, d)
     THEN Record(s, Finalize([d EXCEPT !.status = "APPROVED"]))
     ELSE Record(s, d)

AwaitsTrades(s, rec, serial) ==
  Approves(s, BuildDecision(s, rec, serial)) /\ rec.items > 0

Activity(kind, pc, d, left) == [kind |-> kind, pc |-> pc, decision |-> d, left |-> left]

\* A cycle past its analysis, in its loop over the recommendations it kept:
\* candidates are the CRITICAL and HIGH ones, next is the index of the one the
\* loop takes next, volatility is that of the market data the cycle fetched.
CycleLoop(candidates, volatility) ==
  [kind |-> "cycle", pc |-> "loop", decision |-> NoDecision, left |-> 0,
   candidates |-> candidates, next |-> 1, volatility |-> volatility]

criticalRecommendations(recommendations) ==
  SelectSeq(recommendations, LAMBDA r : r.priority \in {"CRITICAL", "HIGH"})

meetsExecutionCriteriaIgnoringMarket(withinTradingHours, withinTradingLimits, volatility) ==
  withinTradingHours /\ withinTradingLimits

\* meetsExecutionCriteria: the clock and the trade counts are inputs
\* (isWithinTradingHours, isWithinTradingLimits); passesRiskChecks is true.
meetsExecutionCriteria(withinTradingHours, withinTradingLimits, volatility) ==
  withinTradingHours /\ withinTradingLimits /\ volatility # "HIGH"

\* getTodayTrades and getHourlyTrades while the clock stands still: every
\* Decision of the history is of this hour and of today, and each
\* contributes the trades of its execution details, FAILED ones included.
RECURSIVE TradesRecorded(_)
TradesRecorded(history) ==
  IF history = <<>> THEN 0
  ELSE history[1].executionDetails.trades + TradesRecorded(Tail(history))

isWithinTradingLimits(s) ==
  /\ TradesRecorded(s.decisionHistory) < MaxTradesPerHour * 24
  /\ TradesRecorded(s.decisionHistory) < MaxTradesPerHour

\* The cycle after an awaited executeDecision: back in its loop.
ResumeCycle(act) ==
  IF "candidates" \in DOMAIN act
  THEN [act EXCEPT !.pc = "loop", !.decision = NoDecision, !.left = 0]
  ELSE Activity("cycle", "recs", NoDecision, 0)

\* The cycle is past its loop, at checkRiskLimits.
AtRiskCheck(act) ==
  /\ act.kind = "cycle"
  /\ \/ act.pc = "recs"
     \/ act.pc = "loop" /\ act.next > Len(act.candidates)

\* The cycle is between its analysis and its end.
InCycleBody(act) == act.kind = "cycle" /\ act.pc \in {"recs", "loop"}

RemoveAt(seq, i) == SubSeq(seq, 1, i - 1) \o SubSeq(seq, i + 1, Len(seq))

executionCycleUnguarded(s, calls) ==
  Append(calls, Activity("cycle", "fetch", NoDecision, 0))

\* executionCycle up to its first await (getCurrentData): calls are the
\* suspended calls of the agent, the new cycle joins them unless it returns
\* at once.
executionCycle(s, calls) ==
  IF s.status # "ACTIVE"
  THEN calls
  ELSE Append(calls, Activity("cycle", "fetch", NoDecision, 0))

\* updateConfig: config = {...config, ...newConfig}; merged is the result of the spread.
updateConfig(s, merged) ==
  [s EXCEPT !.enabled = merged.enabled, !.autonomyLevel = merged.autonomyLevel,
            !.simulationMode = merged.simulationMode]

cycleFailedSilently(s) == [s EXCEPT !.status = "ERROR"]

\* The catch of executionCycle.
cycleFailed(s) ==
  addAlert([s EXCEPT !.status = "ERROR"], "CRITICAL", "SYSTEM_ERROR", "cycle_failed")

\* initiateEmergencyHedging: the alert, the HEDGE recommendation (CRITICAL,
\* riskReduction 0.50, one action item naming no asset), executeDecision.
EmergencyRecommendation ==
  [type |-> "HEDGE", priority |-> "CRITICAL", riskReduction |-> 50, items |-> 0]

initiateEmergencyHedgingAlertOnly(s, serial) ==
  addAlert(s, "CRITICAL", "RISK_LIMIT_BREACH", "hedging")

initiateEmergencyHedging(s, serial) ==
  executeDecisionNow(addAlert(s, "CRITICAL", "RISK_LIMIT_BREACH", "hedging"),
                     EmergencyRecommendation, serial)

\* checkRiskLimits of the agent; the two comparisons are inputs (varBreach,
\* concentrationBreach), the analyzer's numbers being outside the model.
agentCheckRiskLimits(s, varBreach, concentrationBreach, serial) ==
  LET s1 == IF varBreach
            THEN LET alerted == addAlert(s, "CRITICAL", "RISK_LIMIT_BREACH", "var_exceeded")
                 IN IF s.autonomyLevel = "FULL_AUTO"
                    THEN initiateEmergencyHedging(alerted, serial)
                    ELSE alerted
            ELSE s
  IN IF concentrationBreach
     THEN addAlert(s1, "HIGH", "RISK_LIMIT_BREACH", "concentration")
     ELSE s1

(***************************************************************************)
(* AgentMonitor.  agents is the registry in insertion order (a Map);       *)
(* awaiting counts the emergencyShutdown calls suspended at their await.   *)
(* A world w is [agent, monitor, effects]: what a monitor call may change. *)
(***************************************************************************)
Range(seq) == {seq[i] : i \in 1..Len(seq)}

NewMonitor(maxConsecutiveFailures, triggers) ==
  [agents |-> <<>>, intervalId |-> FALSE, liveTimers |-> 0,
   emergencyShutdownActive |-> FALSE, awaiting |-> 0,
   maxConsecutiveFailures |-> maxConsecutiveFailures,
   autoShutdownTriggers |-> triggers]

NoEffects ==
  [stops |-> [a \in AgentIds |-> 0],
   notifications |-> [c \in 1..Len(emergencyContacts) |-> 0],
   reason |-> "none"]

startMonitoring(m) == [m EXCEPT !.intervalId = TRUE, !.liveTimers = @ + 1]

stopMonitoring(m) ==
  IF m.intervalId THEN [m EXCEPT !.intervalId = FALSE, !.liveTimers = @ - 1] ELSE m

\* emergencyShutdown past its guard and up to its await: the flag, the stop
\* loop, the notifications (sendEmergencyNotification has no await of its own).
stopAllAndNotify(w, reason) ==
  LET registered == Range(w.monitor.agents)
  IN [agent |-> [a \in AgentIds |-> IF a \in registered THEN stop(w.agent[a]) ELSE w.agent[a]],
      monitor |-> [w.monitor EXCEPT !.emergencyShutdownActive = TRUE, !.awaiting = @ + 1],
      effects |-> [stops |-> [a \in AgentIds |->
                               w.effects.stops[a] + IF a \in registered THEN 1 ELSE 0],
                   notifications |-> [c \in 1..Len(emergencyContacts) |->
                                       w.effects.notifications[c] + 1],
                   reason |-> reason]]

emergencyShutdownUnguarded(w, reason) == stopAllAndNotify(w, reason)

emergencyShutdown(w, reason) ==
  IF w.monitor.emergencyShutdownActive THEN w ELSE stopAllAndNotify(w, reason)

\* The rest of emergencyShutdown, after the await.
emergencyShutdownResume(m) == [stopMonitoring(m) EXCEPT !.awaiting = @ - 1]

overrideAgent(w, a, action) ==
  IF a \notin Range(w.monitor.agents) THEN w
  ELSE [w EXCEPT !.agent[a] = CASE action = "PAUSE" -> pause(@)
                                [] action = "RESUME" -> start(@)
                                [] action = "STOP" -> stop(@)
                                [] OTHER -> @]

\* getState: {...this.state}, a copy of the top level only.  The alerts of the
\* copy are the agent's own array of the agent's own alert objects.
getState(s) == s

acknowledgeAlertToggling(w, a, alertId) ==
  IF a \notin Range(w.monitor.agents) THEN w
  ELSE LET alerts == getState(w.agent[a]).alerts
           found == {i \in DOMAIN alerts : alerts[i].id = alertId}
       IN IF found = {}
          THEN w
          ELSE [w EXCEPT !.agent[a].alerts[CHOOSE i \in found : \A j \in found : i <= j]
                                   .acknowledged = ~@]

\* acknowledgeAlert: find() gives the first alert with the id, and the write
\* to it through the copy is a write to the agent's alert.
acknowledgeAlert(w, a, alertId) ==
  IF a \notin Range(w.monitor.agents) THEN w
  ELSE LET alerts == getState(w.agent[a]).alerts
           found == {i \in DOMAIN alerts : alerts[i].id = alertId}
       IN IF found = {}
          THEN w
          ELSE [w EXCEPT !.agent[a].alerts[CHOOSE i \in found : \A j \in found : i <= j]
                                   .acknowledged = TRUE]

RECURSIVE countConsecutiveFailures(_)
countConsecutiveFailures(decisions) ==
  IF decisions = <<>> THEN 0
  ELSE IF decisions[Len(decisions)].status = "FAILED"
       THEN 1 + countConsecutiveFailures(SubSeq(decisions, 1, Len(decisions) - 1))
       ELSE 0

\* Every Decision of the model is of the current day; yieldImprovement is absent.
RECURSIVE calculateDailyLoss(_)
calculateDailyLoss(decisions) ==
  IF decisions = <<>> THEN 0
  ELSE LET d == decisions[Len(decisions)]
           rest == calculateDailyLoss(SubSeq(decisions, 1, Len(decisions) - 1))
       IN IF d.status = "COMPLETED" /\ d.executionDetails.present
          THEN rest + d.executionDetails.totalCost
          ELSE rest

checkPerformanceAlertsStrict(w, a, decisions) ==
  IF countConsecutiveFailures(LastN(decisions, FailureWindow)) > w.monitor.maxConsecutiveFailures
  THEN overrideAgent(w, a, "PAUSE")
  ELSE w

checkPerformanceAlerts(w, a, decisions) ==
  IF countConsecutiveFailures(LastN(decisions, FailureWindow)) >= w.monitor.maxConsecutiveFailures
  THEN overrideAgent(w, a, "PAUSE")
  ELSE w

UnacknowledgedCritical(alerts) ==
  Cardinality({i \in 1..Len(alerts) : alerts[i].severity = "CRITICAL" /\ ~alerts[i].acknowledged})

monitorCheckRiskLimitsIgnoringAcknowledged(w, a, state) ==
  IF Cardinality({i \in 1..Len(state.alerts) : state.alerts[i].severity = "CRITICAL"})
       >= CriticalAlertPause
  THEN overrideAgent(w, a, "PAUSE")
  ELSE w

monitorCheckRiskLimits(w, a, state) ==
  IF UnacknowledgedCritical(state.alerts) >= CriticalAlertPause
  THEN overrideAgent(w, a, "PAUSE")
  ELSE w

TriggerValue(trigger, state, decisions) ==
  CASE trigger.condition = "daily_loss" -> calculateDailyLoss(decisions)
    [] trigger.condition = "max_drawdown" -> state.maxDrawdown
    [] trigger.condition = "success_rate" -> state.successRate
    [] OTHER -> 0

ThresholdBreachedAbove(trigger, state, decisions) ==
  TriggerValue(trigger, state, decisions) > trigger.threshold

ThresholdBreached(trigger, state, decisions) ==
  IF trigger.condition = "success_rate"
  THEN TriggerValue(trigger, state, decisions) < trigger.threshold
  ELSE TriggerValue(trigger, state, decisions) > trigger.threshold

\* The loop stops at the first breached trigger; the reason given to
\* emergencyShutdown starts with that trigger's description, which is modelled
\* by its condition.
checkShutdownTriggers(w, state, decisions) ==
  LET triggers == w.monitor.autoShutdownTriggers
      breached == {i \in DOMAIN triggers : ThresholdBreached(triggers[i], state, decisions)}
  IN IF breached = {}
     THEN w
     ELSE emergencyShutdown(w, triggers[CHOOSE i \in breached : \A j \in breached : i <= j].condition)

\* state and decisions are the copies taken on entry (getState, getDecisionHistory).
monitorAgent(w, a) ==
  LET state == getState(w.agent[a])
      decisions == state.decisionHistory
      w1 == checkPerformanceAlerts(w, a, decisions)
      w2 == monitorCheckRiskLimits(w1, a, state)
  IN checkShutdownTriggers(w2, state, decisions)

RECURSIVE SweepFrom(_, _, _)
SweepFrom(w, order, i) ==
  IF i > Len(order) THEN w ELSE SweepFrom(monitorAgent(w, order[i]), order, i + 1)

performMonitoringCycle(w) ==
  IF w.monitor.emergencyShutdownActive THEN w ELSE SweepFrom(w, w.monitor.agents, 1)

(***************************************************************************)
(* TradeExecutor.  Prices, market values and limit prices are kept in      *)
(* hundred-thousandths (1.00006 is 100006): one digit below the four       *)
(* decimals the executor rounds to.  Impact, slippage and slippage         *)
(* tolerance are in millionths (0.001 is 1000); the random draws and       *)
(* percentages in hundredths.  An asset is [kind, marketValue,             *)
(* currentPrice, quantity], kind standing for its type and securityType;   *)
(* an order is [asset, action, quantity, orderType, limitPrice,            *)
(* slippageTolerance], limitPrice 0 standing for an absent one.            *)
(***************************************************************************)
Max(x, y) == IF x > y THEN x ELSE y

Execution(order, quantity, price, status) ==
  [action |-> order.action, quantity |-> quantity, price |-> price, status |-> status]

\* The execution both failure paths return: the order's quantity, price 0.
FailedExecution(order) == Execution(order, order.quantity, 0, "FAILED")

\* A promise of executeTrade not yet settled, and one that rejected.
Pending == [action |-> "NONE", quantity |-> 0, price |-> 0, status |-> "PENDING"]

Rejected == [action |-> "NONE", quantity |-> 0, price |-> 0, status |-> "REJECTED"]

\* A hundred times the estimated daily volume: 10% of the market value times
\* the liquidity multiplier of the asset's kind.
getEstimatedDailyVolume(asset) ==
  asset.marketValue * (CASE asset.kind = "TREASURY" -> 100
                         [] asset.kind = "STOCK" -> 50
                         [] asset.kind = "BOND" -> 20
                         [] asset.kind \in {"MBS", "ABS"} -> 5
                         [] asset.kind = "LOAN" -> 1
                         [] OTHER -> 10)

\* order value > estimated daily volume * 0.1
ExceedsVolumeShare(order) ==
  order.quantity * order.asset.currentPrice * VolumeShareScale
    > getEstimatedDailyVolume(order.asset)

calculateMarketImpact(order) ==
  LET ratio == (order.quantity * order.asset.currentPrice * ImpactPerRatio)
                 \div Max(getEstimatedDailyVolume(order.asset) \div 100, 1)
      impact == CASE order.asset.kind = "LOAN" -> ratio * 3
                  [] order.asset.kind = "TREASURY" -> (ratio * 3) \div 10
                  [] order.asset.kind \in {"MBS", "ABS"} -> ratio * 2
                  [] OTHER -> ratio
  IN Min(impact, ImpactCap)

\* volatilityMultiplier is the draw 0.8 + Math.random() * 0.4.
calculateSlippage(order, volatilityMultiplier) ==
  LET baseSlippage == CASE order.orderType = "MARKET" -> (BaseSlippage * 15) \div 10
                        [] order.orderType = "SMART" -> (BaseSlippage * 7) \div 10
                        [] OTHER -> BaseSlippage
  IN Min((baseSlippage * volatilityMultiplier) \div 100, order.slippageTolerance)

\* Math.round(x * 10000) / 10000 of a price in hundred-thousandths.
RoundToFourDecimals(price) == ((price + 5) \div 10) * 10

calculateExecutionPrice(order, marketImpact, slippage) ==
  LET totalImpact == marketImpact + slippage
      move == ((order.asset.currentPrice \div 100) * totalImpact) \div 10000
      moved == IF order.action = "BUY"
               THEN order.asset.currentPrice + move
               ELSE order.asset.currentPrice - move
      limited == IF order.orderType = "LIMIT" /\ order.limitPrice # 0
                 THEN IF order.action = "BUY"
                      THEN Min(moved, order.limitPrice)
                      ELSE Max(moved, order.limitPrice)
                 ELSE moved
  IN RoundToFourDecimals(limited)

calculateExecutedQuantityAnySize(order, fillRate) == (order.quantity * fillRate) \div 100

\* fillRate is the draw 0.6 + Math.random() * 0.4.
calculateExecutedQuantity(order, fillRate) ==
  IF ExceedsVolumeShare(order)
  THEN (order.quantity * fillRate) \div 100
  ELSE order.quantity

\* draws: [success, fillRate, volatilityMultiplier], the three Math.random() uses.
simulateTradeExecution(order, draws) ==
  LET marketImpact == calculateMarketImpact(order)
      slippage == calculateSlippage(order, draws.volatilityMultiplier)
      executionPrice == calculateExecutionPrice(order, marketImpact, slippage)
  IN IF ~draws.success
     THEN FailedExecution(order)
     ELSE LET executedQuantity == calculateExecutedQuantity(order, draws.fillRate)
          IN Execution(order, executedQuantity, executionPrice,
                       IF executedQuantity = order.quantity THEN "FILLED" ELSE "PARTIAL")

executeTradeUncaught(mockMode, order, draws, throws) ==
  IF ~mockMode \/ throws THEN Rejected ELSE simulateTradeExecution(order, draws)

\* executeTrade: executeRealTrade always throws; throws stands for an error
\* raised inside simulateTradeExecution (an order whose asset is missing).
executeTrade(mockMode, order, draws, throws) ==
  IF ~mockMode \/ throws THEN FailedExecution(order) ELSE simulateTradeExecution(order, draws)

\* Promise.all over the executeTrade promises.
PromiseAll(settled) ==
  IF \E i \in DOMAIN settled : settled[i].status = "REJECTED" THEN "rejected"
  ELSE IF \E i \in DOMAIN settled : settled[i].status = "PENDING" THEN "pending"
  ELSE "resolved"

\* executeBatchTrades up to its await: every executeTrade called, none settled.
executeBatchTrades(x, caller, orders) ==
  [x EXCEPT !.caller = caller, !.orders = orders,
            !.settled = [i \in DOMAIN orders |-> Pending],
            !.outcome = PromiseAll([i \in DOMAIN orders |-> Pending])]

\* validateOrder: the errors it lists; hour is new Date().getHours().
validateOrder(order, hour) ==
  LET errors ==
        (IF order.quantity <= 0 THEN {"quantity"} ELSE {})
        \cup (IF order.orderType = "LIMIT" /\ order.limitPrice = 0 THEN {"limit_price"} ELSE {})
        \cup (IF order.slippageTolerance < 0 \/ order.slippageTolerance > MaxSlippageTolerance
              THEN {"slippage_tolerance"} ELSE {})
        \cup (IF /\ order.asset.kind = "LOAN"
                 /\ (order.quantity * order.asset.currentPrice) \div PriceScale < LoanMinimumNotional
              THEN {"loan_minimum"} ELSE {})
        \cup (IF (hour < 9 \/ hour > 16) /\ order.asset.kind = "STOCK"
              THEN {"market_hours"} ELSE {})
  IN [valid |-> errors = {}, errors |-> errors]

\* calculateTradeQuantity: quantity and percentage 0 stand for absent ones.
calculateTradeQuantity(actionItem) ==
  IF actionItem.quantity # 0 THEN actionItem.quantity
  ELSE IF actionItem.percentage # 0
       THEN (actionItem.asset.quantity * actionItem.percentage) \div 100
       ELSE 0

\* The order executeRecommendation builds for an action item that names an
\* asset; settings are the config's executionSettings.
OrderOf(actionItem, settings) ==
  [asset |-> actionItem.asset,
   action |-> IF actionItem.action \in {"BUY", "INCREASE"} THEN "BUY" ELSE "SELL",
   quantity |-> calculateTradeQuantity(actionItem),
   orderType |-> settings.orderType,
   limitPrice |-> 0,
   slippageTolerance |-> settings.slippageTolerance]

(***************************************************************************)
(* Inputs drawn by the actions.                                            *)
(***************************************************************************)
Configs ==
  [enabled : BOOLEAN, autonomyLevel : AutonomyLevels, simulationMode : BOOLEAN]

\* The recommendations of the agent specification: every priority, with and
\* without the risk-reduction bonus, a HEDGE and a REBALANCE.
RecommendationInputs ==
  [type : {"HEDGE", "REBALANCE"}, priority : Priorities,
   riskReduction : {0, 30}, items : 0..MaxItems]

\* The recommendations of the system specification.
SystemRecommendations ==
  {[type |-> "REBALANCE", priority |-> "CRITICAL", riskReduction |-> 0, items |-> 1],
   [type |-> "REBALANCE", priority |-> "HIGH", riskReduction |-> 0, items |-> 0]}

TradeResults == {"FILLED", "PARTIAL", "FAILED"}

MonitorConfigs ==
  {NewMonitor(1, <<[condition |-> "daily_loss", threshold |-> 0]>>),
   NewMonitor(1, <<[condition |-> "max_drawdown", threshold |-> 10],
                   [condition |-> "success_rate", threshold |-> 50]>>)}

\* The monitor configurations of the monitor specification: the failure
\* threshold 1 or 2; no trigger, or triggers of every condition in two orders,
\* with thresholds on either side of the values the metrics take.
MonitorTriggerLists ==
  {<<>>,
   <<[condition |-> "daily_loss", threshold |-> 0],
     [condition |-> "success_rate", threshold |-> 50]>>,
   <<[condition |-> "max_drawdown", threshold |-> 10],
     [condition |-> "success_rate", threshold |-> 0],
     [condition |-> "daily_loss", threshold |-> 1]>>}

SweepConfigs ==
  {NewMonitor(n, triggers) : n \in {1, 2}, triggers \in MonitorTriggerLists}

\* The ids an acknowledgeAlert call may name: those in the log, and one that is not.
AlertIdsOf(a) == {agent[a].alerts[i].id : i \in DOMAIN agent[a].alerts} \cup {-1}

\* What the recommendation source returns in the cycle specification: up to
\* CycleMaxRecommendations of a CRITICAL recommendation the policy executes
\* under FULL_AUTO, a HIGH one it leaves PENDING and a MEDIUM one.
CycleRecommendationInputs ==
  {[type |-> "REBALANCE", priority |-> "CRITICAL", riskReduction |-> 30, items |-> CycleItems],
   [type |-> "REBALANCE", priority |-> "HIGH", riskReduction |-> 0, items |-> 0],
   [type |-> "REBALANCE", priority |-> "MEDIUM", riskReduction |-> 30, items |-> 1]}

CycleRecommendationLists ==
  UNION {[1..n -> CycleRecommendationInputs] : n \in 0..CycleMaxRecommendations}

CycleConfigs == [enabled : {TRUE}, autonomyLevel : AutonomyLevels, simulationMode : BOOLEAN]

\* The snapshots a fetch can return, the mock prices of the fallback and the
\* trade lists of an executed recommendation in the market specification.
Snapshots == [price : {99, 101}, volatility : {"LOW", "MEDIUM", "HIGH"}]

MockPrices == {99, 100, 101}

MarketTradeLists ==
  {<<>>} \cup {<<[asset |-> i, action |-> action, quantity |-> 1, status |-> status]>> :
                  i \in 1..2, action \in {"BUY", "SELL"}, status \in {"FILLED", "FAILED"}}

\* The assets of the executor specification: kinds of every liquidity, a
\* market value that makes ten units a large order and one that does not, a
\* price on the four-decimal grid and one off it.
ExecutorAssets ==
  [kind : {"TREASURY", "LOAN", "BOND"}, marketValue : {1000000, 10000000},
   currentPrice : {100000, 100006}, quantity : {10}]

\* The orders given to the executor directly: valid and invalid ones, limit
\* prices on either side of the price, on and off the grid.
ExecutorOrders ==
  [asset : ExecutorAssets, action : {"BUY", "SELL"}, quantity : {0, 1, 10},
   orderType : {"MARKET", "LIMIT", "SMART"}, limitPrice : {0, 99994, 100006, 110000},
   slippageTolerance : {0, 1000, 200000}]

\* The orders of batches of two.
BatchOrders ==
  {o \in ExecutorOrders :
     /\ o.asset = [kind |-> "LOAN", marketValue |-> 1000000, currentPrice |-> 100000,
                   quantity |-> 10]
     /\ o.orderType = "MARKET" /\ o.limitPrice = 0
     /\ o.slippageTolerance = 1000}

Batches ==
  {<<>>} \cup {<<o>> : o \in ExecutorOrders}
         \cup {<<o1, o2>> : o1 \in BatchOrders, o2 \in BatchOrders}

\* The Math.random() draws of one simulated execution.
Draws == [success : BOOLEAN, fillRate : {60, 85, 100}, volatilityMultiplier : {80, 100, 120}]

\* The action items the agent turns into orders, and its execution settings.
ActionItems ==
  [asset : {[kind |-> "BOND", marketValue |-> 10000000, currentPrice |-> 100000,
             quantity |-> 10]},
   action : {"BUY", "SELL", "REDUCE"}, quantity : {0, 5}, percentage : {0, 30}]

ExecutionSettings ==
  [orderType : {"MARKET", "LIMIT", "SMART"}, slippageTolerance : {1000, 200000}]

\* The recommendations scored: every priority, the risk reduction absent (0),
\* around the 0.2 of the bonus and up to 1.
ScoringInputs ==
  [priority : Priorities, riskReduction : 0..40 \cup {100}, result : {-1}]

GateInputs ==
  [autonomyLevel : AutonomyLevels, simulationMode : BOOLEAN,
   decisionType : DecisionTypes, priority : Priorities,
   confidence : {0, 60, 69, 70, 71, 80, 81, 85, 86, 90, 91, 100},
   result : {"none"}]

GateIdle ==
  [autonomyLevel |-> "ADVISORY_ONLY", simulationMode |-> FALSE,
   decisionType |-> "OPPORTUNISTIC_TRADE", priority |-> "LOW", confidence |-> 0,
   result |-> "none"]

\* The executor as constructed (mockMode), no call in flight.
NewExecutor(mockMode) ==
  [mockMode |-> mockMode, caller |-> "none", orders |-> <<>>, settled |-> <<>>, outcome |-> "idle"]

ScoringIdle == [priority |-> "LOW", riskReduction |-> 0, result |-> -1]

(***************************************************************************)
(* Market data and the portfolio.  A snapshot is [price, volatility]: the  *)
(* price the feed gives for the asset it knows, and the sentiment's        *)
(* volatility.  The portfolio holds that asset and one the feed does not   *)
(* price; weights are in thousandths.                                      *)
(***************************************************************************)
NoData == [price |-> 0, volatility |-> "NONE"]

Asset(id, quantity, currentPrice, marketValue, weight) ==
  [id |-> id, quantity |-> quantity, currentPrice |-> currentPrice,
   marketValue |-> marketValue, weight |-> weight]

\* The portfolio handed to the agent's constructor.
InitialPortfolio ==
  [assets |-> <<Asset("loan-001", 10, 100, 1000, 500), Asset("off-feed", 5, 200, 1000, 500)>>,
   totalValue |-> 2000]

\* The snapshot of the catch branch: mock prices drawn anew, a fixed sentiment.
getFallbackData(mockPrice) == [price |-> mockPrice, volatility |-> "MEDIUM"]

\* getCurrentData at time clock: the cached snapshot while it is younger than
\* CacheDuration; else the fetched one, which is cached; else, the fetch
\* having failed, the fallback.  Gives the cache, the snapshot returned,
\* whether the fetch failed and whether the call raised.
getCurrentData(cache, clock, fetchOk, fetched, mockPrice) ==
  IF cache.present /\ clock - cache.timestamp < CacheDuration
  THEN [cache |-> cache, data |-> cache.data, fetchFailed |-> FALSE, raised |-> FALSE]
  ELSE IF fetchOk
       THEN [cache |-> [present |-> TRUE, data |-> fetched, timestamp |-> clock],
             data |-> fetched, fetchFailed |-> FALSE, raised |-> FALSE]
       ELSE [cache |-> cache, data |-> getFallbackData(mockPrice),
             fetchFailed |-> TRUE, raised |-> FALSE]

\* marketData.prices has an entry for the first asset only (0: no entry).
updatePortfolioValues(portfolio, data) ==
  LET PriceOf(id) == IF id = "loan-001" THEN data.price ELSE 0
      priced == [i \in DOMAIN portfolio.assets |->
                   LET asset == portfolio.assets[i]
                   IN IF PriceOf(asset.id) # 0
                      THEN [asset EXCEPT !.currentPrice = PriceOf(asset.id),
                                         !.marketValue = asset.quantity * PriceOf(asset.id)]
                      ELSE asset]
      totalValue == priced[1].marketValue + priced[2].marketValue
  IN [assets |-> [i \in DOMAIN priced |->
                    [priced[i] EXCEPT !.weight = (priced[i].marketValue * WeightScale) \div totalValue]],
      totalValue |-> totalValue]

updatePortfolioAfterTradesApplying(portfolio, trades) ==
  IF trades = <<>> \/ trades[1].status = "FAILED" THEN portfolio
  ELSE [portfolio EXCEPT !.assets[trades[1].asset].quantity =
          IF trades[1].action = "BUY" THEN @ + trades[1].quantity ELSE @ - trades[1].quantity]

\* updatePortfolioAfterTrades has an empty body.
updatePortfolioAfterTrades(portfolio, trades) == portfolio

NewMarket ==
  [cache |-> [present |-> FALSE, data |-> NoData, timestamp |-> 0],
   data |-> NoData, fetchFailed |-> FALSE, raised |-> FALSE,
   portfolio |-> InitialPortfolio, trades |-> <<>>, executed |-> 0]

World == [agent |-> agent, monitor |-> monitor, effects |-> effects]

MonitorCall(w) ==
  /\ agent' = w.agent
  /\ monitor' = w.monitor
  /\ effects' = w.effects

(***************************************************************************)
(* The bounds of a run: the alerts logged, the agent timers scheduled and  *)
(* the suspended calls, each counted over all agents; the monitor's        *)
(* timers; the Decisions created; the updateConfig calls.  A step is       *)
(* explored only if the state it leads to is within them.                  *)
(***************************************************************************)
TotalAlerts == Len(agent["a1"].alerts) + Len(agent["a2"].alerts)
TotalTimers == agent["a1"].liveTimers + agent["a2"].liveTimers
TotalInflight == Len(inflight["a1"]) + Len(inflight["a2"])

Within(maxAlerts, maxTimers, maxInflight, maxDecisions) ==
  /\ nextSerial <= maxDecisions + 1
  /\ monitor.liveTimers <= MaxMonitorTimers
  /\ TotalTimers <= maxTimers
  /\ TotalInflight <= maxInflight
  /\ TotalAlerts <= maxAlerts

WithinBounds == Within(MaxAlerts, MaxTimers, MaxInflight, MaxDecisions)

AgentWithinBounds ==
  /\ Within(AgentMaxAlerts, AgentMaxTimers, AgentMaxInflight, AgentMaxDecisions)
  /\ updates <= AgentMaxUpdates

HistoryWithinBounds ==
  Within(HistoryMaxAlerts, HistoryMaxTimers, HistoryMaxInflight, HistoryMaxDecisions)

(***************************************************************************)
(* Initial state: the agents constructed (enabled, FULL_AUTO, live         *)
(* execution; updateConfig leads to the other configs), the monitor        *)
(* constructed with one of its configurations, nothing registered.         *)
(***************************************************************************)
Constructed(m, g) ==
  /\ agent = [a \in AgentIds |-> NewAgent(TRUE, "FULL_AUTO", FALSE)]
  /\ inflight = [a \in AgentIds |-> <<>>]
  /\ monitor = m
  /\ effects = NoEffects
  /\ nextSerial = 1
  /\ updates = 0
  /\ gate = g
  /\ now = 0
  /\ executor = NewExecutor(TRUE)
  /\ scoring = ScoringIdle
  /\ market = NewMarket

Init == \E m \in MonitorConfigs : Constructed(m, GateIdle)

(***************************************************************************)
(* The agent's control surface.                                            *)
(***************************************************************************)
Start(a) ==
  /\ agent' = [agent EXCEPT ![a] = start(@)]
  /\ UNCHANGED <<inflight, monitor, effects, nextSerial, updates, gate>>

Stop(a) ==
  /\ agent' = [agent EXCEPT ![a] = stop(@)]
  /\ UNCHANGED <<inflight, monitor, effects, nextSerial, updates, gate>>

Pause(a) ==
  /\ agent' = [agent EXCEPT ![a] = pause(@)]
  /\ UNCHANGED <<inflight, monitor, effects, nextSerial, updates, gate>>

UpdateConfig(a, merged) ==
  /\ agent' = [agent EXCEPT ![a] = updateConfig(@, merged)]
  /\ updates' = updates + 1
  /\ UNCHANGED <<inflight, monitor, effects, nextSerial, gate>>

\* executeDecision called from outside a cycle.
ExecuteDecision(a, rec) ==
  /\ IF AwaitsTrades(agent[a], rec, nextSerial)
     THEN /\ inflight' = [inflight EXCEPT ![a] =
                Append(@, Activity("direct", "trading",
                  [BuildDecision(agent[a], rec, nextSerial) EXCEPT !.status = "APPROVED"],
                  rec.items))]
          /\ UNCHANGED agent
     ELSE /\ agent' = [agent EXCEPT ![a] = executeDecisionNow(@, rec, nextSerial)]
          /\ UNCHANGED inflight
  /\ nextSerial' = nextSerial + 1
  /\ UNCHANGED <<monitor, effects, updates, gate>>

(***************************************************************************)
(* The agent's timer and its cycle.                                        *)
(***************************************************************************)
\* A tick of one of the agent's interval timers.
CycleTick(a) ==
  /\ agent[a].liveTimers > 0
  /\ inflight' = [inflight EXCEPT ![a] = executionCycle(agent[a], @)]
  /\ UNCHANGED <<agent, monitor, effects, nextSerial, updates, gate>>

\* Market data is in: repricing, analysis, recommendations.  The analysis of a
\* malformed portfolio throws, which the cycle's catch turns into ERROR.
CycleAnalyse(a, i) ==
  /\ i \in 1..Len(inflight[a])
  /\ inflight[a][i].kind = "cycle" /\ inflight[a][i].pc = "fetch"
  /\ \/ /\ inflight' = [inflight EXCEPT ![a][i].pc = "recs"]
        /\ UNCHANGED agent
     \/ /\ agent' = [agent EXCEPT ![a] = cycleFailed(@)]
        /\ inflight' = [inflight EXCEPT ![a] = RemoveAt(@, i)]
  /\ UNCHANGED <<monitor, effects, nextSerial, updates, gate>>

\* The next CRITICAL or HIGH recommendation of the cycle's list: skipped when
\* meetsExecutionCriteria fails, else handed to executeDecision.
CycleRecommendation(a, i, rec, meets) ==
  /\ i \in 1..Len(inflight[a])
  /\ inflight[a][i].kind = "cycle" /\ inflight[a][i].pc = "recs"
  /\ rec.priority \in {"CRITICAL", "HIGH"}
  /\ IF ~meets
     THEN UNCHANGED <<agent, inflight, nextSerial>>
     ELSE /\ nextSerial' = nextSerial + 1
          /\ IF AwaitsTrades(agent[a], rec, nextSerial)
             THEN /\ inflight' = [inflight EXCEPT ![a][i] =
                        Activity("cycle", "trading",
                          [BuildDecision(agent[a], rec, nextSerial) EXCEPT !.status = "APPROVED"],
                          rec.items)]
                  /\ UNCHANGED agent
             ELSE /\ agent' = [agent EXCEPT ![a] = executeDecisionNow(@, rec, nextSerial)]
                  /\ UNCHANGED inflight
  /\ UNCHANGED <<monitor, effects, updates, gate>>

\* Market data is in and the analysis went through: the cycle keeps the
\* CRITICAL and HIGH recommendations of the source and enters its loop.
CycleRecommendations(a, i, recommendations, volatility) ==
  /\ i \in 1..Len(inflight[a])
  /\ inflight[a][i].kind = "cycle" /\ inflight[a][i].pc = "fetch"
  /\ inflight' = [inflight EXCEPT ![a][i] =
       CycleLoop(criticalRecommendations(recommendations), volatility)]
  /\ UNCHANGED <<agent, monitor, effects, nextSerial, updates, gate>>

\* One turn of the loop: the next candidate is skipped when
\* meetsExecutionCriteria fails, else handed to executeDecision.
CycleCandidate(a, i, withinTradingHours, withinTradingLimits) ==
  /\ i \in 1..Len(inflight[a])
  /\ inflight[a][i].kind = "cycle" /\ inflight[a][i].pc = "loop"
  /\ inflight[a][i].next <= Len(inflight[a][i].candidates)
  /\ LET act == inflight[a][i]
         rec == act.candidates[act.next]
     IN IF ~meetsExecutionCriteria(withinTradingHours, withinTradingLimits, act.volatility)
        THEN /\ inflight' = [inflight EXCEPT ![a][i].next = @ + 1]
             /\ UNCHANGED <<agent, nextSerial>>
        ELSE /\ nextSerial' = nextSerial + 1
             /\ IF AwaitsTrades(agent[a], rec, nextSerial)
                THEN /\ inflight' = [inflight EXCEPT ![a][i] =
                           [act EXCEPT !.pc = "trading",
                                       !.decision = [BuildDecision(agent[a], rec, nextSerial)
                                                       EXCEPT !.status = "APPROVED"],
                                       !.left = rec.items,
                                       !.next = @ + 1]]
                     /\ UNCHANGED agent
                ELSE /\ agent' = [agent EXCEPT ![a] = executeDecisionNow(@, rec, nextSerial)]
                     /\ inflight' = [inflight EXCEPT ![a][i].next = @ + 1]
  /\ UNCHANGED <<monitor, effects, updates, gate>>

\* One awaited executeTrade returns; after the last one the Decision is
\* finalized and recorded, and the caller goes on.
TradeReturns(a, i, result) ==
  /\ i \in 1..Len(inflight[a])
  /\ inflight[a][i].pc = "trading"
  /\ LET act == inflight[a][i]
         d == [act.decision EXCEPT !.executionDetails = AddTrade(@, result)]
     IN IF act.left > 1
        THEN /\ inflight' = [inflight EXCEPT ![a][i] = [act EXCEPT !.decision = d, !.left = @ - 1]]
             /\ UNCHANGED agent
        ELSE /\ agent' = [agent EXCEPT ![a] = Record(@, Finalize(d))]
             /\ inflight' = [inflight EXCEPT ![a] =
                   IF act.kind = "cycle"
                   THEN [@ EXCEPT ![i] = ResumeCycle(act)]
                   ELSE RemoveAt(@, i)]
  /\ UNCHANGED <<monitor, effects, nextSerial, updates, gate>>

\* The end of the cycle: checkRiskLimits (its analysis may throw as well).
CycleRiskCheck(a, i, varBreach, concentrationBreach) ==
  /\ i \in 1..Len(inflight[a])
  /\ \/ /\ AtRiskCheck(inflight[a][i])
        /\ agent' = [agent EXCEPT ![a] =
              agentCheckRiskLimits(@, varBreach, concentrationBreach, nextSerial)]
        /\ nextSerial' = IF varBreach /\ agent[a].autonomyLevel = "FULL_AUTO"
                         THEN nextSerial + 1 ELSE nextSerial
     \/ /\ InCycleBody(inflight[a][i])
        /\ agent' = [agent EXCEPT ![a] = cycleFailed(@)]
        /\ UNCHANGED nextSerial
  /\ inflight' = [inflight EXCEPT ![a] = RemoveAt(@, i)]
  /\ UNCHANGED <<monitor, effects, updates, gate>>

(***************************************************************************)
(* The monitor's surface, its timer and the rest of emergencyShutdown.     *)
(***************************************************************************)
RegisterAgent(a) ==
  /\ monitor' = [monitor EXCEPT !.agents =
                   IF a \in Range(@) THEN @ ELSE Append(@, a)]
  /\ UNCHANGED <<agent, inflight, effects, nextSerial, updates, gate>>

UnregisterAgent(a) ==
  /\ monitor' = [monitor EXCEPT !.agents = SelectSeq(@, LAMBDA x : x # a)]
  /\ UNCHANGED <<agent, inflight, effects, nextSerial, updates, gate>>

StartMonitoring ==
  /\ MonitorCall([World EXCEPT !.monitor = startMonitoring(@)])
  /\ UNCHANGED <<inflight, nextSerial, updates, gate>>

StopMonitoring ==
  /\ MonitorCall([World EXCEPT !.monitor = stopMonitoring(@)])
  /\ UNCHANGED <<inflight, nextSerial, updates, gate>>

OverrideAgent(a, action) ==
  /\ MonitorCall(overrideAgent(World, a, action))
  /\ UNCHANGED <<inflight, nextSerial, updates, gate>>

\* emergencyShutdown called from outside the sweep (the HTTP layer).
EmergencyShutdown ==
  /\ MonitorCall(emergencyShutdown(World, "requested"))
  /\ UNCHANGED <<inflight, nextSerial, updates, gate>>

AcknowledgeAlert(a, alertId) ==
  /\ MonitorCall(acknowledgeAlert(World, a, alertId))
  /\ UNCHANGED <<inflight, nextSerial, updates, gate>>

EmergencyShutdownResume ==
  /\ monitor.awaiting > 0
  /\ monitor' = emergencyShutdownResume(monitor)
  /\ UNCHANGED <<agent, inflight, effects, nextSerial, updates, gate>>

\* A tick of one of the monitor's interval timers.
SweepTick ==
  /\ monitor.liveTimers > 0
  /\ MonitorCall(performMonitoringCycle(World))
  /\ UNCHANGED <<inflight, nextSerial, updates, gate>>

(***************************************************************************)
(* The system: the monitor and its agents, as constructed.                 *)
(***************************************************************************)
SystemStep ==
  \/ \E a \in AgentIds : Start(a)
  \/ \E a \in AgentIds : Stop(a)
  \/ \E a \in AgentIds : Pause(a)
  \/ \E a \in AgentIds, rec \in SystemRecommendations : ExecuteDecision(a, rec)
  \/ \E a \in AgentIds : CycleTick(a)
  \/ \E a \in AgentIds : \E i \in DOMAIN inflight[a] : CycleAnalyse(a, i)
  \/ \E a \in AgentIds, rec \in SystemRecommendations, ok \in BOOLEAN :
       \E i \in DOMAIN inflight[a] : CycleRecommendation(a, i, rec, ok)
  \/ \E a \in AgentIds, result \in TradeResults :
       \E i \in DOMAIN inflight[a] : TradeReturns(a, i, result)
  \/ \E a \in AgentIds, vb \in BOOLEAN, cb \in BOOLEAN :
       \E i \in DOMAIN inflight[a] : CycleRiskCheck(a, i, vb, cb)
  \/ \E a \in AgentIds : RegisterAgent(a)
  \/ \E a \in AgentIds : UnregisterAgent(a)
  \/ \E a \in AgentIds, action \in {"PAUSE", "RESUME", "STOP"} : OverrideAgent(a, action)
  \/ StartMonitoring
  \/ StopMonitoring
  \/ EmergencyShutdown
  \/ EmergencyShutdownResume
  \/ SweepTick

Next == SystemStep /\ WithinBounds' /\ UNCHANGED <<now, apart>>

Spec == Init /\ [][Next]_vars

(***************************************************************************)
(* One agent on its own: every config, every recommendation input.         *)
(***************************************************************************)
TheAgent == CHOOSE a \in AgentIds : TRUE

AgentStep ==
  \/ Start(TheAgent)
  \/ Stop(TheAgent)
  \/ Pause(TheAgent)
  \/ \E merged \in Configs : UpdateConfig(TheAgent, merged)
  \/ \E rec \in RecommendationInputs : ExecuteDecision(TheAgent, rec)
  \/ CycleTick(TheAgent)
  \/ \E i \in DOMAIN inflight[TheAgent] : CycleAnalyse(TheAgent, i)
  \/ \E rec \in RecommendationInputs, ok \in BOOLEAN :
       \E i \in DOMAIN inflight[TheAgent] : CycleRecommendation(TheAgent, i, rec, ok)
  \/ \E result \in TradeResults :
       \E i \in DOMAIN inflight[TheAgent] : TradeReturns(TheAgent, i, result)
  \/ \E vb \in BOOLEAN, cb \in BOOLEAN :
       \E i \in DOMAIN inflight[TheAgent] : CycleRiskCheck(TheAgent, i, vb, cb)

AgentNext == AgentStep /\ AgentWithinBounds' /\ UNCHANGED <<now, apart>>

AgentInit == Constructed(NewMonitor(1, <<>>), GateIdle)

SpecAgent == AgentInit /\ [][AgentNext]_vars

(***************************************************************************)
(* One agent as constructed, with calls that overlap: several Decisions,   *)
(* several suspended calls.                                                *)
(***************************************************************************)
HistoryStep ==
  \/ Start(TheAgent)
  \/ Stop(TheAgent)
  \/ Pause(TheAgent)
  \/ \E rec \in SystemRecommendations : ExecuteDecision(TheAgent, rec)
  \/ CycleTick(TheAgent)
  \/ \E i \in DOMAIN inflight[TheAgent] : CycleAnalyse(TheAgent, i)
  \/ \E rec \in SystemRecommendations, ok \in BOOLEAN :
       \E i \in DOMAIN inflight[TheAgent] : CycleRecommendation(TheAgent, i, rec, ok)
  \/ \E result \in TradeResults :
       \E i \in DOMAIN inflight[TheAgent] : TradeReturns(TheAgent, i, result)
  \/ \E vb \in BOOLEAN, cb \in BOOLEAN :
       \E i \in DOMAIN inflight[TheAgent] : CycleRiskCheck(TheAgent, i, vb, cb)

HistoryNext == HistoryStep /\ HistoryWithinBounds' /\ UNCHANGED <<now, apart>>

SpecHistory == AgentInit /\ [][HistoryNext]_vars

(***************************************************************************)
(* One agent under the monitor: its decisions fill or fail, its cycles     *)
(* raise alerts, the monitor sweeps, acknowledges and shuts down.          *)
(***************************************************************************)
MonitorWithinBounds ==
  /\ nextSerial <= MonitorMaxDecisions + 1
  /\ monitor.liveTimers <= MonitorMaxSweepTimers
  /\ TotalTimers <= 1
  /\ TotalInflight <= 1
  /\ TotalAlerts <= MonitorMaxAlerts

MonitorStep ==
  \/ RegisterAgent(TheAgent)
  \/ Start(TheAgent)
  \/ \E rec \in SystemRecommendations : ExecuteDecision(TheAgent, rec)
  \/ \E result \in TradeResults :
       \E i \in DOMAIN inflight[TheAgent] : TradeReturns(TheAgent, i, result)
  \/ StartMonitoring
  \/ EmergencyShutdown
  \/ EmergencyShutdownResume
  \/ SweepTick

MonitorNext == MonitorStep /\ MonitorWithinBounds' /\ UNCHANGED <<now, apart>>

MonitorInit == \E m \in SweepConfigs : Constructed(m, GateIdle)

SpecMonitor == MonitorInit /\ [][MonitorNext]_vars

(***************************************************************************)
(* One agent whose cycles raise alerts at different times, the monitor     *)
(* acknowledging them and sweeping.                                        *)
(***************************************************************************)
\* A millisecond passes.
ClockAdvances ==
  /\ now' = now + 1
  /\ UNCHANGED <<agent, inflight, monitor, effects, nextSerial, updates, gate, apart>>

AckWithinBounds ==
  /\ nextSerial <= AckMaxDecisions + 1
  /\ monitor.liveTimers <= 1
  /\ TotalTimers <= 1
  /\ TotalInflight <= 1
  /\ TotalAlerts <= AckMaxAlerts
  /\ now <= AckMaxNow

AckStep ==
  \/ RegisterAgent(TheAgent)
  \/ Start(TheAgent)
  \/ CycleTick(TheAgent)
  \/ \E i \in DOMAIN inflight[TheAgent] : CycleAnalyse(TheAgent, i)
  \/ \E vb \in BOOLEAN, cb \in BOOLEAN :
       \E i \in DOMAIN inflight[TheAgent] : CycleRiskCheck(TheAgent, i, vb, cb)
  \/ \E alertId \in AlertIdsOf(TheAgent) : AcknowledgeAlert(TheAgent, alertId)
  \/ StartMonitoring
  \/ SweepTick

AckNext ==
  \/ AckStep /\ UNCHANGED <<now, apart>> /\ AckWithinBounds'
  \/ ClockAdvances /\ AckWithinBounds'

SpecAcknowledge == AgentInit /\ [][AckNext]_vars

(***************************************************************************)
(* One agent whose alert log fills up to its cap: stop() called again and  *)
(* again, the monitor acknowledging.                                       *)
(***************************************************************************)
LogStep ==
  \/ RegisterAgent(TheAgent)
  \/ Stop(TheAgent)
  \/ \E alertId \in AlertIdsOf(TheAgent) : AcknowledgeAlert(TheAgent, alertId)

LogNext ==
  \/ LogStep /\ UNCHANGED <<now, apart>>
  \/ ClockAdvances /\ now' <= LogMaxNow

SpecAlertLog == AgentInit /\ [][LogNext]_vars

(***************************************************************************)
(* One agent and the cycles of its timer, each with the list its           *)
(* recommendation source returned and the volatility of its market data.   *)
(* The clock stands still, so the trading limits count every trade of the  *)
(* history.                                                                *)
(***************************************************************************)
CycleWithinBounds ==
  /\ nextSerial <= CycleMaxDecisions + 1
  /\ updates <= 1
  /\ TotalTimers <= 1
  /\ TotalInflight <= 1
  /\ TotalAlerts <= CycleMaxAlerts

CycleStep ==
  \/ Start(TheAgent)
  \/ \E merged \in CycleConfigs : UpdateConfig(TheAgent, merged)
  \/ CycleTick(TheAgent)
  \/ \E recommendations \in CycleRecommendationLists, volatility \in {"LOW", "HIGH"} :
       \E i \in DOMAIN inflight[TheAgent] :
         CycleRecommendations(TheAgent, i, recommendations, volatility)
  \/ \E withinTradingHours \in BOOLEAN :
       \E i \in DOMAIN inflight[TheAgent] :
         CycleCandidate(TheAgent, i, withinTradingHours, isWithinTradingLimits(agent[TheAgent]))
  \/ \E result \in TradeResults :
       \E i \in DOMAIN inflight[TheAgent] : TradeReturns(TheAgent, i, result)
  \/ \E vb \in BOOLEAN, cb \in BOOLEAN :
       \E i \in DOMAIN inflight[TheAgent] : CycleRiskCheck(TheAgent, i, vb, cb)

CycleNext == CycleStep /\ CycleWithinBounds' /\ UNCHANGED <<now, apart>>

SpecCycle == AgentInit /\ [][CycleNext]_vars

(***************************************************************************)
(* The trade executor alone: one call of executeBatchTrades with orders    *)
(* of every kind, or one order the agent builds from an action item; the   *)
(* executeTrade promises settle one by one.                                *)
(***************************************************************************)
ExecutorInit ==
  /\ agent = [a \in AgentIds |-> NewAgent(TRUE, "FULL_AUTO", FALSE)]
  /\ inflight = [a \in AgentIds |-> <<>>]
  /\ monitor = NewMonitor(1, <<>>)
  /\ effects = NoEffects
  /\ nextSerial = 1
  /\ updates = 0
  /\ gate = GateIdle
  /\ now = 0
  /\ \E mockMode \in BOOLEAN : executor = NewExecutor(mockMode)
  /\ scoring = ScoringIdle
  /\ market = NewMarket

ExecuteBatchTrades(orders) ==
  /\ executor.outcome = "idle"
  /\ Len(orders) <= MaxBatch
  /\ executor' = executeBatchTrades(executor, "batch", orders)

\* executeRecommendation reaches an action item that names an asset.
ExecuteActionItem(actionItem, settings) ==
  /\ executor.outcome = "idle"
  /\ executor' = executeBatchTrades(executor, "agent", <<OrderOf(actionItem, settings)>>)

\* The promise of the i-th executeTrade settles.
TradeSettles(i, draws, throws) ==
  /\ i \in DOMAIN executor.settled
  /\ executor.settled[i].status = "PENDING"
  /\ LET settled == [executor.settled EXCEPT ![i] =
                       executeTrade(executor.mockMode, executor.orders[i], draws, throws)]
     IN executor' = [executor EXCEPT !.settled = settled, !.outcome = PromiseAll(settled)]

ExecutorStep ==
  \/ \E orders \in Batches : ExecuteBatchTrades(orders)
  \/ \E actionItem \in ActionItems, settings \in ExecutionSettings :
       ExecuteActionItem(actionItem, settings)
  \/ \E i \in 1..MaxBatch, draws \in Draws, throws \in BOOLEAN : TradeSettles(i, draws, throws)

ExecutorNext ==
  ExecutorStep
    /\ UNCHANGED <<agent, inflight, monitor, effects, nextSerial, updates, gate, now, scoring, market>>

SpecExecutor == ExecutorInit /\ [][ExecutorNext]_vars

(***************************************************************************)
(* The market data provider and the portfolio: the head of a cycle         *)
(* (getCurrentData, updatePortfolioValues), the executions of              *)
(* recommendations, the clock.                                             *)
(***************************************************************************)
CycleFetch(fetchOk, fetched, mockPrice) ==
  LET got == getCurrentData(market.cache, now, fetchOk, fetched, mockPrice)
  IN /\ market' = [market EXCEPT
                     !.cache = got.cache,
                     !.data = got.data,
                     !.raised = got.raised,
                     !.fetchFailed = got.fetchFailed,
                     !.portfolio = IF got.raised THEN @ ELSE updatePortfolioValues(@, got.data)]
     /\ UNCHANGED now

ExecuteRecommendation(trades) ==
  /\ market.executed < MarketMaxExecutions
  /\ market' = [market EXCEPT !.portfolio = updatePortfolioAfterTrades(@, trades),
                              !.trades = trades,
                              !.executed = @ + 1]
  /\ UNCHANGED now

TimePasses ==
  /\ now + CacheDuration \div 2 <= MarketMaxNow
  /\ now' = now + CacheDuration \div 2
  /\ UNCHANGED market

MarketNext ==
  /\ \/ \E fetchOk \in BOOLEAN, fetched \in Snapshots, mockPrice \in MockPrices :
          CycleFetch(fetchOk, fetched, mockPrice)
     \/ \E trades \in MarketTradeLists : ExecuteRecommendation(trades)
     \/ TimePasses
  /\ UNCHANGED <<agent, inflight, monitor, effects, nextSerial, updates, gate, executor, scoring>>

SpecMarket == AgentInit /\ [][MarketNext]_vars

(***************************************************************************)
(* Confidence scoring alone, applied to every drawn recommendation.        *)
(***************************************************************************)
ScoringInit ==
  /\ agent = [a \in AgentIds |-> NewAgent(TRUE, "FULL_AUTO", FALSE)]
  /\ inflight = [a \in AgentIds |-> <<>>]
  /\ monitor = NewMonitor(1, <<>>)
  /\ effects = NoEffects
  /\ nextSerial = 1
  /\ updates = 0
  /\ gate = GateIdle
  /\ now = 0
  /\ executor = NewExecutor(TRUE)
  /\ scoring \in ScoringInputs
  /\ market = NewMarket

Score ==
  /\ scoring.result = -1
  /\ scoring' = [scoring EXCEPT !.result = calculateConfidence(scoring.priority, scoring.riskReduction)]
  /\ UNCHANGED <<agent, inflight, monitor, effects, nextSerial, updates, gate, now, executor, market>>

ScoringNext == Score

SpecConfidence == ScoringInit /\ [][ScoringNext]_vars

(***************************************************************************)
(* The autonomy policy alone, applied to every drawn input.                *)
(***************************************************************************)
GateInit == \E g \in GateInputs : Constructed(NewMonitor(1, <<>>), g)

GateEvaluate ==
  /\ gate.result = "none"
  /\ gate' = [gate EXCEPT !.result =
       IF shouldAutoExecute(gate.autonomyLevel, gate.simulationMode, gate.decisionType,
                            gate.priority, gate.confidence)
       THEN "execute" ELSE "skip"]
  /\ UNCHANGED <<agent, inflight, monitor, effects, nextSerial, updates, now, apart>>

GateNext == GateEvaluate

SpecGate == GateInit /\ [][GateNext]_vars

(***************************************************************************)
(* Properties.                                                             *)
(***************************************************************************)
Registered == Range(monitor.agents)

ShutdownActive == monitor.emergencyShutdownActive

HistoryOf(a) == agent[a].decisionHistory

IsPrefix(h, k) == Len(h) <= Len(k) /\ SubSeq(k, 1, Len(h)) = h

Serials(h) == {h[i].serial : i \in DOMAIN h}

Cycles(calls) == Cardinality({i \in DOMAIN calls : calls[i].kind = "cycle"})

LastAlert(s) == s.alerts[Len(s.alerts)]

\* C1: emergency shutdown is idempotent.  Whatever the number of calls of
\* emergencyShutdown (from outside or from the sweep, while the first call is
\* awaiting or after it finished), stop() is invoked by shutdown at most once
\* per agent, on exactly the agents registered when the flag was set; each
\* emergency contact gets exactly one message once the flag is set and none
\* before; a call made while the flag is set changes nothing.
C1_ShutdownOnce ==
  /\ [](/\ \A a \in AgentIds : effects.stops[a] <= 1
        /\ \A c \in DOMAIN emergencyContacts :
             effects.notifications[c] = IF ShutdownActive THEN 1 ELSE 0
        /\ ~ShutdownActive => \A a \in AgentIds : effects.stops[a] = 0
        /\ ShutdownActive => emergencyShutdown(World, "requested") = World
        /\ monitor.awaiting <= 1)
  /\ [][/\ ShutdownActive => (effects' = effects /\ monitor'.emergencyShutdownActive)
        /\ (~ShutdownActive /\ monitor'.emergencyShutdownActive) =>
             \A a \in AgentIds : effects'.stops[a] = IF a \in Registered THEN 1 ELSE 0]_vars

\* A finished shutdown of two registered agents: each stopped once, each
\* contact notified once.
C1_Witness ==
  /\ ShutdownActive
  /\ monitor.awaiting = 0
  /\ Len(monitor.agents) = 2
  /\ \A a \in AgentIds : effects.stops[a] = 1
  /\ \A c \in DOMAIN emergencyContacts : effects.notifications[c] = 1

\* C2: the step that initiates an emergency shutdown (a direct call, or a
\* sweep in which a trigger is breached) ends with every agent that was
\* registered when it began in status STOPPED.
C2_ShutdownLeavesStopped ==
  [][(~ShutdownActive /\ monitor'.emergencyShutdownActive) =>
       \A a \in Registered : agent'[a].status = "STOPPED"]_vars

\* C3: once an emergency shutdown has been initiated, no step makes a
\* registered agent ACTIVE.
C3_NoRestartAfterShutdown ==
  [][ShutdownActive =>
       \A a \in Registered :
          agent'[a].status = "ACTIVE" => agent[a].status = "ACTIVE"]_vars

\* C4: decision history is append-only.  Every step leaves the history it
\* found as a prefix of the history it leaves (no Decision removed, moved or
\* changed); no Decision is in history twice, none that is still executing
\* is in history; totalDecisions equals the history length.
C4_HistoryAppendOnly ==
  /\ [](\A a \in AgentIds :
          /\ agent[a].totalDecisions = Len(HistoryOf(a))
          /\ \A i, j \in DOMAIN HistoryOf(a) :
               HistoryOf(a)[i].serial = HistoryOf(a)[j].serial => i = j
          /\ \A i \in DOMAIN HistoryOf(a) : HistoryOf(a)[i].serial \in 1..(nextSerial - 1)
          /\ \A i \in DOMAIN inflight[a] :
               inflight[a][i].pc = "trading" =>
                 inflight[a][i].decision.serial \notin Serials(HistoryOf(a)))
  /\ [][\A a \in AgentIds :
          IsPrefix(agent[a].decisionHistory, agent'[a].decisionHistory)]_vars

\* Two overlapping executeDecision calls: the Decision created second was
\* recorded first, the one created first after its trade returned.
C4_Witness ==
  /\ Len(HistoryOf(TheAgent)) >= 2
  /\ HistoryOf(TheAgent)[1].serial > HistoryOf(TheAgent)[2].serial
  /\ HistoryOf(TheAgent)[2].executionDetails.trades = 1
  /\ agent[TheAgent].totalDecisions = Len(HistoryOf(TheAgent))

C6_LowConfidenceStaysPending ==
  \A a \in AgentIds :
    /\ \A i \in DOMAIN HistoryOf(a) :
         HistoryOf(a)[i].confidence < 70 =>
           /\ HistoryOf(a)[i].status = "PENDING"
           /\ HistoryOf(a)[i].executionDetails = NoDetails
    /\ \A i \in DOMAIN inflight[a] :
         inflight[a][i].pc = "trading" => inflight[a][i].decision.confidence >= 70

\* An emergency hedge of confidence 0.6 made under FULL_AUTO with live
\* execution, recorded PENDING.
C6_Witness ==
  /\ updates = 0
  /\ agent[TheAgent].autonomyLevel = "FULL_AUTO"
  /\ ~agent[TheAgent].simulationMode
  /\ \E i \in DOMAIN HistoryOf(TheAgent) :
       /\ HistoryOf(TheAgent)[i].confidence = 60
       /\ HistoryOf(TheAgent)[i].decisionType = "EMERGENCY_HEDGE"
       /\ HistoryOf(TheAgent)[i].status = "PENDING"

\* The first-match decision table of the autonomy policy.
PolicyTable(g) ==
  IF g.autonomyLevel = "ADVISORY_ONLY" \/ g.simulationMode THEN FALSE
  ELSE IF g.confidence < 70 THEN FALSE
  ELSE IF g.decisionType = "EMERGENCY_HEDGE" \/ (g.priority = "CRITICAL" /\ g.confidence > 80)
       THEN g.autonomyLevel = "FULL_AUTO"
  ELSE IF g.priority = "HIGH" /\ g.confidence > 85
       THEN g.autonomyLevel = "FULL_AUTO"
  ELSE g.autonomyLevel = "FULL_AUTO" /\ g.priority # "LOW" /\ g.confidence > 90

\* C7: shouldAutoExecute agrees with the first-match decision table for every
\* combination of autonomy level, simulation flag, priority, decision type
\* and confidence.
C7_PolicyIsTheTable ==
  gate.result # "none" => ((gate.result = "execute") <=> PolicyTable(gate))

\* A HIGH priority Decision just above 0.85, not a hedge, executed.
C7_Witness ==
  /\ gate.result = "execute"
  /\ gate.priority = "HIGH"
  /\ gate.confidence = 86
  /\ gate.decisionType = "AUTO_REBALANCE"

\* C8: an agent's status changes only to ACTIVE with config.enabled, from
\* ACTIVE to PAUSED, to STOPPED, or from ACTIVE to ERROR.
C8_StatusTransitions ==
  [][\A a \in AgentIds :
       agent'[a].status # agent[a].status =>
          \/ agent'[a].status = "ACTIVE" /\ agent[a].enabled
          \/ agent'[a].status = "PAUSED" /\ agent[a].status = "ACTIVE"
          \/ agent'[a].status = "STOPPED"
          \/ agent'[a].status = "ERROR" /\ agent[a].status = "ACTIVE"]_vars

\* C9, as amended: start() on an agent whose config.enabled is false leaves
\* its status as it was, creates no timer (the handle and the scheduled
\* timers are as they were), suspends no call and appends exactly one HIGH
\* SYSTEM_ERROR alert; start() on an enabled agent makes it ACTIVE.
C9_StartRespectsEnabled ==
  [][\A a \in AgentIds :
       agent'[a] = start(agent[a]) =>
          IF ~agent[a].enabled
          THEN /\ agent'[a].status = agent[a].status
               /\ agent'[a].intervalId = agent[a].intervalId
               /\ agent'[a].liveTimers = agent[a].liveTimers
               /\ agent'[a].alerts =
                    Append(agent[a].alerts, NewAlert("HIGH", "SYSTEM_ERROR", "disabled"))
               /\ inflight'[a] = inflight[a]
          ELSE /\ agent'[a].status = "ACTIVE"
               /\ agent'[a].intervalId]_vars

\* A paused agent whose config was disabled, after a start(): still PAUSED,
\* the alert logged.
C9_Witness ==
  /\ ~agent[TheAgent].enabled
  /\ agent[TheAgent].status = "PAUSED"
  /\ agent[TheAgent].alerts # <<>>
  /\ LastAlert(agent[TheAgent]) = NewAlert("HIGH", "SYSTEM_ERROR", "disabled")

\* C9 as stated: start() on an agent whose config.enabled is false leaves the
\* agent STOPPED, creates no timer and appends one HIGH SYSTEM_ERROR alert.
C9_DisabledStartLeavesStopped ==
  [][\A a \in AgentIds :
       (agent'[a] = start(agent[a]) /\ ~agent[a].enabled) =>
          /\ agent'[a].status = "STOPPED"
          /\ agent'[a].liveTimers = agent[a].liveTimers
          /\ agent'[a].alerts =
               Append(agent[a].alerts, NewAlert("HIGH", "SYSTEM_ERROR", "disabled"))]_vars

\* C10: a cycle starts only on a tick that finds the agent ACTIVE; a tick
\* that finds it in another status suspends nothing and changes nothing; and
\* an agent that is not ACTIVE (after stop(), so) becomes ACTIVE only by a
\* start().
C10_CyclesOnlyWhenActive ==
  [][\A a \in AgentIds :
       /\ Cycles(inflight'[a]) > Cycles(inflight[a]) =>
            (agent[a].status = "ACTIVE" /\ agent[a].liveTimers > 0 /\ agent'[a] = agent[a])
       /\ agent[a].status # "ACTIVE" => executionCycle(agent[a], inflight[a]) = inflight[a]
       /\ (agent'[a].status = "ACTIVE" /\ agent[a].status # "ACTIVE") =>
            agent'[a] = start(agent[a])]_vars

\* A stopped agent with a timer still scheduled (an earlier start() lost its
\* handle) and no cycle under way.
C10_Witness ==
  /\ agent[TheAgent].status = "STOPPED"
  /\ agent[TheAgent].liveTimers > 0
  /\ inflight[TheAgent] = <<>>
  /\ agent[TheAgent].alerts # <<>>
  /\ LastAlert(agent[TheAgent]).message = "stopped"

C12_AcknowledgeLeavesAgentState ==
  [][\A a \in AgentIds : \A alertId \in AlertIdsOf(a) :
       (/\ agent' = acknowledgeAlert(World, a, alertId).agent
        /\ UNCHANGED <<monitor, effects, inflight, nextSerial, updates, gate>>)
          => agent' = agent]_vars

\* A sweep that runs its checks: a tick of a monitor timer with no emergency
\* shutdown active.
SweepRuns ==
  /\ monitor.liveTimers > 0
  /\ ~ShutdownActive
  /\ MonitorCall(performMonitoringCycle(World))
  /\ UNCHANGED <<inflight, nextSerial, updates, gate>>

\* The number of FAILED Decisions at the end of h with no other in between.
TrailingFailures(h) ==
  CHOOSE k \in 0..Len(h) :
    /\ \A i \in (Len(h) - k + 1)..Len(h) : h[i].status = "FAILED"
    /\ k = Len(h) \/ h[Len(h) - k].status # "FAILED"

\* Some alert appended by the step says the agent was paused.
PausedBySweep(a) ==
  \E i \in (Len(agent[a].alerts) + 1)..Len(agent'[a].alerts) :
    agent'[a].alerts[i].message = "paused"

OpenCritical(alerts) ==
  {i \in DOMAIN alerts : alerts[i].severity = "CRITICAL" /\ alerts[i].acknowledged = FALSE}

Triggers == monitor.autoShutdownTriggers

Breached(a, i) ==
  \/ /\ Triggers[i].condition = "success_rate"
     /\ agent[a].successRate < Triggers[i].threshold
  \/ /\ Triggers[i].condition = "daily_loss"
     /\ calculateDailyLoss(HistoryOf(a)) > Triggers[i].threshold
  \/ /\ Triggers[i].condition = "max_drawdown"
     /\ agent[a].maxDrawdown > Triggers[i].threshold

\* C15: in a sweep that runs its checks over the registered agent, the
\* triggers are taken in their configured order.  If some trigger is breached
\* the sweep starts an emergency shutdown whose reason is the first breached
\* trigger (the later ones play no part) and each contact is notified once;
\* if none is breached the sweep starts no shutdown.
C15_FirstBreachedTriggerShutsDown ==
  [][SweepRuns =>
       \A a \in Registered :
         LET breached == {i \in DOMAIN Triggers : Breached(a, i)}
         IN IF breached = {}
            THEN ~ShutdownActive' /\ effects' = effects
            ELSE /\ ShutdownActive'
                 /\ effects'.reason =
                      Triggers[CHOOSE i \in breached : \A j \in breached : i <= j].condition
                 /\ \A c \in DOMAIN effects.notifications :
                      effects'.notifications[c] = effects.notifications[c] + 1
                 /\ agent'[a].status = "STOPPED"]_vars

\* A shutdown started by the third trigger of the list, the first two not
\* being breached.
C15_Witness ==
  /\ ShutdownActive
  /\ TheAgent \in Registered
  /\ Len(Triggers) = 3
  /\ Triggers[3].condition = "daily_loss"
  /\ effects.reason = "daily_loss"
  /\ ~Breached(TheAgent, 1)
  /\ ~Breached(TheAgent, 2)

\* C16: once an emergency shutdown has run to its end (its awaited
\* notification returned and stopMonitoring called), no sweep timer of the
\* monitor is left scheduled.
C16_SweepTimerCancelled ==
  [][(monitor.awaiting > 0 /\ monitor'.awaiting < monitor.awaiting)
       => monitor'.liveTimers = 0]_vars

\* The end of a cycle of agent a whose risk check found the VaR above
\* maxDailyVaR, the agent being FULL_AUTO at that point.
VarBreachHandled(a) ==
  /\ agent[a].autonomyLevel = "FULL_AUTO"
  /\ Cycles(inflight'[a]) = Cycles(inflight[a]) - 1
  /\ \E cb \in BOOLEAN : agent'[a] = agentCheckRiskLimits(agent[a], TRUE, cb, nextSerial)

\* C17: when the risk check of a cycle of a FULL_AUTO agent finds the VaR
\* above maxDailyVaR, one EMERGENCY_HEDGE Decision is appended to the history
\* before the cycle ends; with simulation mode off it has been executed
\* (COMPLETED or FAILED, not PENDING), with simulation mode on it is PENDING.
C17_VarBreachHedges ==
  [][VarBreachHandled(TheAgent) =>
       LET h == agent'[TheAgent].decisionHistory
       IN /\ Len(h) = Len(HistoryOf(TheAgent)) + 1
          /\ IsPrefix(HistoryOf(TheAgent), h)
          /\ h[Len(h)].decisionType = "EMERGENCY_HEDGE"
          /\ IF agent[TheAgent].simulationMode
             THEN h[Len(h)].status = "PENDING"
             ELSE h[Len(h)].status \in {"COMPLETED", "FAILED"}]_vars

\* A FULL_AUTO agent, simulation mode off, whose last Decision is an executed
\* emergency hedge announced by the last alert.
C17_Witness ==
  /\ agent[TheAgent].autonomyLevel = "FULL_AUTO"
  /\ ~agent[TheAgent].simulationMode
  /\ HistoryOf(TheAgent) # <<>>
  /\ HistoryOf(TheAgent)[Len(HistoryOf(TheAgent))].decisionType = "EMERGENCY_HEDGE"
  /\ HistoryOf(TheAgent)[Len(HistoryOf(TheAgent))].status = "COMPLETED"
  /\ agent[TheAgent].alerts # <<>>
  /\ LastAlert(agent[TheAgent]).message = "hedging"

\* C17 as stated: the emergency hedge is executed whatever the simulation mode.
C17_HedgeAlwaysExecuted ==
  [][VarBreachHandled(TheAgent) =>
       /\ agent'[TheAgent].decisionHistory # <<>>
       /\ agent'[TheAgent].decisionHistory[Len(agent'[TheAgent].decisionHistory)].status
            \in {"COMPLETED", "FAILED"}]_vars

\* C18: the cycle whose risk check finds one asset above maxSingleAssetWeight
\* ends with a CRITICAL alert for the concentration in the log.
C18_ConcentrationAlertCritical ==
  [][(/\ Cycles(inflight'[TheAgent]) = Cycles(inflight[TheAgent]) - 1
      /\ \E vb \in BOOLEAN :
           agent'[TheAgent] = agentCheckRiskLimits(agent[TheAgent], vb, TRUE, nextSerial))
       => \E i \in (Len(agent[TheAgent].alerts) + 1)..Len(agent'[TheAgent].alerts) :
            /\ agent'[TheAgent].alerts[i].message = "concentration"
            /\ agent'[TheAgent].alerts[i].severity = "CRITICAL"]_vars

\* C19: the alert log never holds more than 100 alerts.  An alert added to
\* a log of fewer than 100 is appended; one added to a log of 100 leaves
\* exactly the 50 most recent of the 101, in their order; in both cases the
\* new alert is the last of the log.
C19_AlertLogBounded ==
  /\ [](\A a \in AgentIds : Len(agent[a].alerts) <= AlertCap)
  /\ [][\A a \in AgentIds :
          agent'[a] = stop(agent[a]) =>
            LET old == agent[a].alerts
                new == agent'[a].alerts
                added == NewAlert("LOW", "SYSTEM_ERROR", "stopped")
            IN /\ new # <<>>
               /\ new[Len(new)] = added
               /\ IF Len(old) < AlertCap
                  THEN new = Append(old, added)
                  ELSE /\ Len(new) = AlertKeep
                       /\ \A i \in 1..(AlertKeep - 1) :
                            new[i] = old[Len(old) + 1 - AlertKeep + i]]_vars

\* A full log, made of alerts of two different milliseconds: the next alert
\* trims it.
C19_Witness ==
  /\ Len(agent[TheAgent].alerts) = AlertCap
  /\ agent[TheAgent].alerts[1].id = 0
  /\ agent[TheAgent].alerts[AlertCap].id = 1

\* C20: an alert that stays in the log (at its place, or moved down by a
\* trim) and is acknowledged stays acknowledged, and the flag of such an
\* alert changes only in a step that is a call of acknowledgeAlert.
C20_AcknowledgedStays ==
  [][\A a \in AgentIds :
       LET old == agent[a].alerts
           new == agent'[a].alerts
           shift == IF Len(new) = Len(old) THEN 0 ELSE Len(old) + 1 - Len(new)
           kept == {i \in DOMAIN old : i - shift \in DOMAIN new}
       IN /\ \A i \in kept : old[i].acknowledged => new[i - shift].acknowledged
          /\ (\E i \in kept : new[i - shift].acknowledged # old[i].acknowledged) =>
               \E alertId \in AlertIdsOf(a) :
                 /\ agent' = acknowledgeAlert(World, a, alertId).agent
                 /\ UNCHANGED <<monitor, effects, inflight, nextSerial, updates, gate>>]_vars

\* An acknowledged alert that is not the newest of its log, in a log short
\* enough to have been trimmed.
C20_Witness ==
  /\ Len(agent[TheAgent].alerts) = AlertKeep + 1
  /\ agent[TheAgent].alerts[AlertKeep].acknowledged
  /\ agent[TheAgent].alerts[AlertKeep].id = 1
  /\ agent[TheAgent].alerts[1].id = 0
  /\ agent[TheAgent].alerts[1].acknowledged

\* The orders of the call in flight whose executeTrade has settled.
Settled == {i \in DOMAIN executor.settled : executor.settled[i].status # "PENDING"}

\* The order's notional is above 10% of the asset's estimated daily volume.
LargeOrder(o) ==
  o.quantity * o.asset.currentPrice * 1000 > getEstimatedDailyVolume(o.asset)

\* C21: for every order executed, the filled quantity is at most the
\* requested one; an execution that did not fail of an order whose notional
\* is at most 10% of the estimated daily volume is FILLED with the requested
\* quantity; a PARTIAL execution is of an order above that 10% and fills
\* strictly less than requested.
C21_PartialFill ==
  \A i \in Settled :
    LET o == executor.orders[i]
        e == executor.settled[i]
    IN /\ e.quantity <= o.quantity
       /\ (e.status # "FAILED" /\ ~LargeOrder(o)) =>
            (e.status = "FILLED" /\ e.quantity = o.quantity)
       /\ e.status = "PARTIAL" => (LargeOrder(o) /\ e.quantity < o.quantity)
       /\ e.status = "FILLED" => e.quantity = o.quantity

\* A large order of ten units filled with eight.
C21_Witness ==
  \E i \in Settled :
    /\ executor.settled[i].status = "PARTIAL"
    /\ executor.orders[i].quantity = 10
    /\ executor.settled[i].quantity = 8

\* C22: a failed execution has status FAILED, price 0 and quantity 0.
C22_FailedExecutionIsEmpty ==
  \A i \in Settled :
    executor.settled[i].status = "FAILED" =>
      (executor.settled[i].price = 0 /\ executor.settled[i].quantity = 0)

\* C23: the price of an execution of a LIMIT order that did not fail is at
\* most the limit price for a BUY and at least the limit price for a SELL.
C23_LimitPriceRespected ==
  \A i \in Settled :
    LET o == executor.orders[i]
        e == executor.settled[i]
    IN (o.orderType = "LIMIT" /\ o.limitPrice # 0 /\ e.status \in {"FILLED", "PARTIAL"}) =>
         IF o.action = "BUY" THEN e.price <= o.limitPrice ELSE e.price >= o.limitPrice

\* C24: a batch has one result per order, at the order's place; the batch
\* call never rejects, and when it resolves every order has its own
\* execution (FILLED, PARTIAL or FAILED); a result, once there, is not
\* changed by what happens to the other orders.
C24_BatchIsolated ==
  /\ [](/\ executor.outcome # "rejected"
        /\ Len(executor.settled) = Len(executor.orders)
        /\ \A i \in Settled :
             /\ executor.settled[i].action = executor.orders[i].action
             /\ executor.settled[i].quantity <= executor.orders[i].quantity
        /\ executor.outcome = "resolved" =>
             \A i \in DOMAIN executor.orders :
               executor.settled[i].status \in {"FILLED", "PARTIAL", "FAILED"})
  /\ [][\A i \in Settled :
          /\ i \in DOMAIN executor'.settled
          /\ executor'.settled[i] = executor.settled[i]]_vars

\* A resolved batch of two: the first order failed, the second was filled
\* after it.
C24_Witness ==
  /\ executor.caller = "batch"
  /\ executor.outcome = "resolved"
  /\ Len(executor.orders) = 2
  /\ executor.settled[1].status = "FAILED"
  /\ executor.settled[2].status = "FILLED"
  /\ executor.orders[1].action # executor.orders[2].action

\* The base confidence of a priority, in hundredths.
BaseConfidence(priority) ==
  CASE priority = "CRITICAL" -> 90
    [] priority = "HIGH" -> 80
    [] priority = "MEDIUM" -> 70
    [] priority = "LOW" -> 60

\* C25: the confidence is the base value of the priority, plus 0.1 when the
\* risk reduction is above 0.2, capped at 1; it lies between 0 and 1.
C25_ConfidenceScore ==
  scoring.result # -1 =>
    /\ scoring.result =
         LET sum == BaseConfidence(scoring.priority)
                      + (IF scoring.riskReduction > 20 THEN 10 ELSE 0)
         IN IF sum > 100 THEN 100 ELSE sum
    /\ scoring.result >= 0
    /\ scoring.result <= 100

\* A MEDIUM recommendation with the bonus, scored 0.8.
C25_Witness ==
  /\ scoring.priority = "MEDIUM"
  /\ scoring.riskReduction = 21
  /\ scoring.result = 80

\* C26: an order the agent handed to the executor that was FILLED or
\* PARTIAL has a positive quantity, a limit price if it is a LIMIT order,
\* and a slippage tolerance within [0, 0.10].
C26_AgentOrdersValid ==
  executor.caller = "agent" =>
    \A i \in Settled :
      executor.settled[i].status \in {"FILLED", "PARTIAL"} =>
        validateOrder(executor.orders[i], 12).errors
          \cap {"quantity", "limit_price", "slippage_tolerance"} = {}

\* The cycles of the agent of the one-agent specifications.
CycleActivities ==
  {i \in DOMAIN inflight[TheAgent] : inflight[TheAgent][i].kind = "cycle"}

\* The Decisions a step appends to the history of the agent.
Appended ==
  LET before == agent[TheAgent].decisionHistory
      after == agent'[TheAgent].decisionHistory
  IN {after[k] : k \in (Len(before) + 1)..Len(after)}

\* C27: a cycle that moves on from a CRITICAL or HIGH candidate without
\* awaiting trades has recorded exactly one Decision for it, whether or not
\* the eligibility gate let it through.
C27_EveryCandidateRecorded ==
  [][\A i \in CycleActivities :
       LET act == inflight[TheAgent][i]
       IN (/\ act.pc = "loop"
           /\ i \in DOMAIN inflight'[TheAgent]
           /\ inflight'[TheAgent][i].pc = "loop"
           /\ inflight'[TheAgent][i].next = act.next + 1)
          => Len(agent'[TheAgent].decisionHistory)
               = Len(agent[TheAgent].decisionHistory) + 1]_vars

C30_LateFailureKeepsStatus ==
  [][(/\ agent[TheAgent].status \in {"STOPPED", "PAUSED"}
      /\ Cycles(inflight'[TheAgent]) < Cycles(inflight[TheAgent]))
     => agent'[TheAgent].status = agent[TheAgent].status]_vars

\* The Decisions of the calls that are awaiting their trades.
Executing == {inflight[TheAgent][i].decision :
                i \in {j \in DOMAIN inflight[TheAgent] : inflight[TheAgent][j].pc = "trading"}}

\* C31: every Decision in the history is finalized (PENDING, COMPLETED or
\* FAILED, with execution details exactly when COMPLETED or FAILED), a
\* Decision still awaiting trades is not in the history, and a Decision with
\* trades is appended by the return of its last trade.
C31_HistoryFinalized ==
  /\ [](/\ \A k \in DOMAIN HistoryOf(TheAgent) :
            LET d == HistoryOf(TheAgent)[k]
            IN /\ d.status \in {"PENDING", "COMPLETED", "FAILED"}
               /\ d.executionDetails.present <=> d.status \in {"COMPLETED", "FAILED"}
        /\ \A e \in Executing :
            \A k \in DOMAIN HistoryOf(TheAgent) : HistoryOf(TheAgent)[k].serial # e.serial)
  /\ [][\A d \in Appended :
          d.executionDetails.trades > 0 =>
            \E i \in DOMAIN inflight[TheAgent] :
              /\ inflight[TheAgent][i].pc = "trading"
              /\ inflight[TheAgent][i].left = 1
              /\ inflight[TheAgent][i].decision.serial = d.serial]_vars

\* A COMPLETED Decision with a trade is in the history while another
\* Decision is still awaiting its trades.
C31_Witness ==
  /\ Executing # {}
  /\ \E k \in DOMAIN HistoryOf(TheAgent) :
       /\ HistoryOf(TheAgent)[k].status = "COMPLETED"
       /\ HistoryOf(TheAgent)[k].executionDetails.trades > 0

RECURSIVE TradesFilled(_)
TradesFilled(history) ==
  IF history = <<>> THEN 0
  ELSE history[1].executionDetails.trades - history[1].executionDetails.failed
         + TradesFilled(Tail(history))

\* C34: the trades the agent executes within one hour, FAILED ones left
\* aside, never exceed maxTradesPerHour.
C34_HourlyTradesBounded ==
  TradesFilled(HistoryOf(TheAgent)) <= MaxTradesPerHour

\* C35: the agent has at most one live cycle timer, and none when it holds
\* no timer handle (after stop()).
C35_OneCycleTimer ==
  /\ agent[TheAgent].liveTimers <= 1
  /\ ~agent[TheAgent].intervalId => agent[TheAgent].liveTimers = 0

\* The serial numbers of the Decisions awaiting their trades.
ExecutingSerials == {e.serial : e \in Executing}

\* C36: a Decision the policy evaluates while the agent is SEMI_AUTO is not
\* auto-executed: in a step of a SEMI_AUTO agent no call starts awaiting
\* trades, and a Decision appended other than PENDING was already awaiting
\* its trades; a call starts awaiting trades only under FULL_AUTO, outside
\* simulation mode, with a confidence of at least 0.7.
C36_SemiAutoNeverApproves ==
  [][LET started == {inflight'[TheAgent][i].decision :
                       i \in {j \in DOMAIN inflight'[TheAgent] :
                                /\ inflight'[TheAgent][j].pc = "trading"
                                /\ inflight'[TheAgent][j].decision.serial \notin ExecutingSerials}}
         finished == {d \in Appended : d.status # "PENDING" /\ d.serial \notin ExecutingSerials}
     IN /\ agent[TheAgent].autonomyLevel = "SEMI_AUTO" => started = {} /\ finished = {}
        /\ \A d \in started \cup finished :
             /\ agent[TheAgent].autonomyLevel = "FULL_AUTO"
             /\ ~agent[TheAgent].simulationMode
             /\ d.confidence >= MinConfidence]_vars

\* A SEMI_AUTO agent outside simulation mode holds a CRITICAL Decision of
\* confidence 1.0 that stayed PENDING.
C36_Witness ==
  /\ agent[TheAgent].autonomyLevel = "SEMI_AUTO"
  /\ ~agent[TheAgent].simulationMode
  /\ \E k \in DOMAIN HistoryOf(TheAgent) :
       /\ HistoryOf(TheAgent)[k].priority = "CRITICAL"
       /\ HistoryOf(TheAgent)[k].confidence = 100
       /\ HistoryOf(TheAgent)[k].status = "PENDING"

\* C36 as stated: while the agent is SEMI_AUTO no Decision is awaiting
\* trades and no step records a Decision as COMPLETED or FAILED.
C36_SemiAutoNeverExecutes ==
  /\ [](agent[TheAgent].autonomyLevel = "SEMI_AUTO" => Executing = {})
  /\ [][agent'[TheAgent].autonomyLevel = "SEMI_AUTO" =>
          \A d \in Appended : d.status = "PENDING"]_vars

\* C37: the success rate and the drawdown of every agent stay 0, and a
\* sweep that runs its checks over a registered agent, a success_rate
\* trigger with a threshold above 0 being configured, starts the emergency
\* shutdown.
C37_SuccessRateStaysZero ==
  /\ [](\A a \in AgentIds : agent[a].successRate = 0 /\ agent[a].maxDrawdown = 0)
  /\ [][(/\ SweepRuns
         /\ Registered # {}
         /\ \E i \in DOMAIN Triggers :
              Triggers[i].condition = "success_rate" /\ Triggers[i].threshold > 0)
        => ShutdownActive']_vars

\* The shutdown was started by the success_rate trigger although a
\* registered agent has a COMPLETED Decision and none that FAILED.
C37_Witness ==
  /\ ShutdownActive
  /\ effects.reason = "success_rate"
  /\ \E a \in Registered :
       /\ \E k \in DOMAIN HistoryOf(a) : HistoryOf(a)[k].status = "COMPLETED"
       /\ \A k \in DOMAIN HistoryOf(a) : HistoryOf(a)[k].status # "FAILED"

\* C38: the alert ids of the agent's log are pairwise distinct.
C38_AlertIdsDistinct ==
  \A i, j \in DOMAIN agent[TheAgent].alerts :
    agent[TheAgent].alerts[i].id = agent[TheAgent].alerts[j].id => i = j

\* C40: an ACTIVE agent is enabled, and so is an agent with a cycle in flight.
C40_ActiveIsEnabled ==
  (agent[TheAgent].status = "ACTIVE" \/ Cycles(inflight[TheAgent]) > 0)
    => agent[TheAgent].enabled

\* C33: when the fetch of getCurrentData has failed and a snapshot was
\* fetched before, the call does not raise and returns that snapshot.
C33_FallbackIsLastKnownGood ==
  (market.fetchFailed /\ market.cache.present) =>
    /\ ~market.raised
    /\ market.data = market.cache.data

\* C39: a step that executes a recommendation leaves the portfolio as it
\* was, and a step that changes the portfolio is the repricing of a cycle
\* with the snapshot the cycle got.
C39_ExecutionLeavesPortfolio ==
  [][/\ market'.executed # market.executed => market'.portfolio = market.portfolio
     /\ market'.portfolio # market.portfolio =>
          /\ market'.executed = market.executed
          /\ market'.portfolio = updatePortfolioValues(market.portfolio, market'.data)]_vars

\* A FILLED purchase of the first asset was executed and the portfolio is
\* the one repriced at 101: ten units still, worth 1010 of 2010.
C39_Witness ==
  /\ market.executed > 0
  /\ market.trades # <<>>
  /\ market.trades[1] = [asset |-> 1, action |-> "BUY", quantity |-> 1, status |-> "FILLED"]
  /\ market.portfolio.assets[1] = Asset("loan-001", 10, 101, 1010, 502)
  /\ market.portfolio.totalValue = 2010

=============================================================================
